---- MODULE Spec2Model ----
(***************************************************************************)
(* Model of the on-device persistence layer of the report builder          *)
(* (src/services/db.ts) and of the screens built on it                     *)
(* (src/unnamed/part_001): the backup handlers of the settings screen,     *)
(* the home screen, the image pipeline and the photo handling of the       *)
(* report screen.                                                          *)
(*                                                                         *)
(* The three IndexedDB object stores are partial functions from key to     *)
(* record.  A JavaScript object is a TLA+ record whose DOMAIN is the set   *)
(* of its own properties; a property that is present with the value        *)
(* `undefined` maps to Undefined.  Reading a property that is not there    *)
(* gives Undefined too (Prop).                                             *)
(*                                                                         *)
(* IndexedDB behaviour the code relies on (W3C Indexed Database API):      *)
(*   - put(v) on a store with keyPath 'id' throws DataError synchronously  *)
(*     when v has no valid 'id';                                           *)
(*   - add(v) fails with ConstraintError when the key is already stored;   *)
(*   - an error event of a request whose handler does not call             *)
(*     preventDefault() aborts the request's transaction, and an aborted   *)
(*     transaction undoes every write it made and never fires complete;    *)
(*   - readwrite transactions with overlapping scope run one at a time,    *)
(*     in the order of their creation.                                     *)
(***************************************************************************)
EXTENDS Integers, Sequences, FiniteSets, TLC

VARIABLES
    users,        \* object store 'users'      (keyPath 'username')
    templates,    \* object store 'templates'  (keyPath 'id')
    reports,      \* object store 'reports'    (keyPath 'id')
    calls,        \* the createUser calls in flight, one per caller
    userTxQueue,  \* live readwrite transactions on 'users', oldest first
    ret,          \* how the last completed store call or handler settled
    backupFile,   \* the backup document last downloaded by handleExportBackup
    exported,     \* history: the store contents that document was made from
    written,      \* history: per report id, the last value durably written
    homeScreen,   \* HomeScreen: the templates and drafts states
    photoQuality, \* localStorage: the item stored under 'photoQuality'
    element,      \* the video or image element handed to processImage
    imageCall,    \* history: the last processImage call of the report screen
    dateNow,      \* Date.now()
    photos,       \* ReportScreen: formData.photos
    isCameraOpen, \* ReportScreen: the camera modal is shown
    streamRef,    \* ReportScreen: streamRef.current (0: null)
    video,        \* the stream shown by the video element (0: none)
    streams,      \* the media streams acquired so far: "live" or "stopped"
    requests,     \* getUserMedia calls that have not settled yet
    editorOpen,   \* ReportScreen: the photo editor is shown
    currentPhoto, \* ReportScreen: the photo the editor was opened on
    editCaption,  \* ReportScreen: the caption input of the editor
    isDrawingMode,
    drawColor,
    isDrawing,
    lastPos,      \* lastPos.current is set
    canvasRef,    \* the editor's canvas: the image drawn on it and the ink
    stagedPhotos,
    isPhotoPreviewOpen,
    isProcessingPhotos,
    fileStatus,   \* handlePhotoUpload: how far each file of the batch is
    processedPhotos,  \* handlePhotoUpload: the photos made so far
    random,       \* the number of values Math.random() has returned
    route,        \* the screen shown and the parameters of its route
    template,     \* ReportScreen: the template state (Null: null)
    loading,      \* ReportScreen: loadData has not ended
    formData,     \* ReportScreen: formData without its photos
    errors,       \* ReportScreen: the required fields flagged as errors
    generatingPdf \* ReportScreen: the report and template that wait for
                  \* the timer of handleGeneratePDF (Null: none)

imageVars == <<photoQuality, element>>
\* the photo lists of ReportScreen and the clock
photoVars == <<dateNow, photos, imageCall>>
cameraVars == <<isCameraOpen, streamRef, video, streams, requests>>
editorVars == <<editorOpen, currentPhoto, editCaption, isDrawingMode,
                drawColor, isDrawing, lastPos, canvasRef>>
stagingVars == <<stagedPhotos, isPhotoPreviewOpen>>
uploadVars == <<isProcessingPhotos, fileStatus, processedPhotos, random>>

\* the state of ReportScreen
reportVars == <<photoVars, cameraVars, editorVars, stagingVars, uploadVars>>

\* the form of ReportScreen
formVars == <<route, template, loading, formData, errors, generatingPdf>>

\* the state of the screens and of the browser around them
uiVars == <<homeScreen, imageVars, reportVars, formVars>>

vars == <<users, templates, reports, calls, userTxQueue, ret, backupFile,
          exported, written, uiVars>>

storeVars == <<templates, reports>>
authVars == <<users, calls, userTxQueue>>
\* the database and the history kept beside it
dbVars == <<users, templates, reports, calls, userTxQueue, backupFile,
            exported, written>>

(***************************************************************************)
(* Bounds and input sets.                                                  *)
(***************************************************************************)
MaxClock == 2        \* Date.now() values are drawn from 1..MaxClock
MaxItems == 2        \* an imported document holds at most MaxItems items

Callers == {"c1", "c2"}
Usernames == {"admin", "ana"}
Passwords == {"admin", "pw"}
TemplateIds == <<"t1", "t2">>      \* in key order
ReportIds == <<"r1", "r2">>        \* in key order
Titles == {"A", "B"}
Clock == 1..MaxClock

Range(s) == {s[i] : i \in DOMAIN s}

(***************************************************************************)
(* JavaScript values.                                                      *)
(***************************************************************************)
Undefined == [t |-> "undefined"]
Num(n) == [t |-> "number", v |-> n]

\* localStorage.getItem of a key that is not set gives null
NoItem == "<null>"

\* o.f : a missing property reads as undefined
Prop(o, f) == IF f \in DOMAIN o THEN o[f] ELSE Undefined

\* the properties the types declare optional: only these can hold undefined
OptionalFields == {"updatedAt"}

\* field-for-field equality of two objects
StructEq(a, b) == \A f \in DOMAIN a \cup DOMAIN b : Prop(a, f) = Prop(b, f)

(***************************************************************************)
(* Records (src/unnamed/part_000).                                         *)
(***************************************************************************)
User == [username : Usernames, password : Passwords, createdAt : Clock]

ReportTemplate == [id : Range(TemplateIds), title : Titles]

\* a report with updatedAt absent, explicitly undefined, or a time
ReportData ==
    [id : Range(ReportIds), templateId : Range(TemplateIds)]
    \cup [id : Range(ReportIds), templateId : Range(TemplateIds),
          updatedAt : {Undefined} \cup {Num(n) : n \in Clock}]

(***************************************************************************)
(* Object store primitives.                                                *)
(***************************************************************************)
\* extracting the key with keyPath 'id' succeeds
HasKey(v) == "id" \in DOMAIN v

\* mutant: a put never replaces a stored record
StorePut_KeepExisting(store, k, v) ==
    [j \in DOMAIN store \cup {k} |-> IF j \in DOMAIN store THEN store[j] ELSE v]

StorePut(store, k, v) ==
    [j \in DOMAIN store \cup {k} |-> IF j = k THEN v ELSE store[j]]

\* mutant: a delete leaves the record where it is
StoreDelete_Nothing(store, k) == store

StoreDelete(store, k) == [j \in DOMAIN store \ {k} |-> store[j]]

StoreGet(store, k) == IF k \in DOMAIN store THEN store[k] ELSE Undefined

\* getAll(): the records in ascending key order
RECURSIVE StoreGetAll(_, _)
StoreGetAll(store, order) ==
    IF order = <<>> THEN <<>>
    ELSE (IF Head(order) \in DOMAIN store THEN <<store[Head(order)]>> ELSE <<>>)
         \o StoreGetAll(store, Tail(order))

EmptyStore == [j \in {} |-> Undefined]

\* how a promise settled; arg and value are always records.  Two fields are
\* history: tick flips with every settled call, so that the step of a call
\* can be told from the rest, and pre says what a write found under its key.
Resolved(op, arg, value) ==
    [op |-> op, arg |-> arg, outcome |-> "resolved", value |-> value,
     tick |-> 1 - ret.tick, pre |-> "none"]
Rejected(op, arg, error) ==
    [op |-> op, arg |-> arg, outcome |-> "rejected", value |-> [error |-> error],
     tick |-> 1 - ret.tick, pre |-> "none"]

NoRet ==
    [op |-> "none", arg |-> Undefined, outcome |-> "none", value |-> Undefined,
     tick |-> 0, pre |-> "none"]

Found(store, k, v) ==
    IF k \notin DOMAIN store THEN "absent"
    ELSE IF store[k] = v THEN "same" ELSE "other"

\* this step settles a call of op
Settles(op) == ret'.tick # ret.tick /\ ret'.op = op
NoFile == [t |-> "nofile"]
NoCall == [pc |-> "idle", user |-> Undefined, result |-> "none"]

\* a fresh database, no call made, the home screen just mounted
InitApp ==
    /\ users = EmptyStore
    /\ templates = EmptyStore
    /\ reports = EmptyStore
    /\ calls = [c \in Callers |-> NoCall]
    /\ userTxQueue = <<>>
    /\ ret = NoRet
    /\ backupFile = NoFile
    /\ exported = NoFile
    /\ written = [i \in Range(ReportIds) |-> Undefined]
    /\ homeScreen = [templates |-> <<>>, drafts |-> <<>>]

NoSource == [t |-> "nosource"]

Null == [t |-> "null"]
NoCanvas == [t |-> "nocanvas"]

Home == [screen |-> "home"]

\* useState of formData.  Of the fields that no handler reads, team
\* stands for all; strings that are trimmed are sequences of characters.
NewFormData ==
    [equipment |-> <<>>, omNumber |-> <<>>, technicians |-> <<>>,
     team |-> "A"]

\* the form of ReportScreen before the screen is shown
InitForm ==
    /\ route = Home
    /\ template = Null
    /\ loading = TRUE
    /\ formData = NewFormData
    /\ errors = {}
    /\ generatingPdf = Null

\* ReportScreen as mounted for a new report
InitReportScreen ==
    /\ InitForm
    /\ dateNow = 1
    /\ photos = <<>>
    /\ imageCall = [tick |-> 0, source |-> NoSource, result |-> Undefined]
    /\ isCameraOpen = FALSE
    /\ streamRef = 0
    /\ video = 0
    /\ streams = <<>>
    /\ requests = 0
    /\ editorOpen = FALSE
    /\ currentPhoto = Null
    /\ editCaption = ""
    /\ isDrawingMode = FALSE
    /\ drawColor = "#ef4444"
    /\ isDrawing = FALSE
    /\ lastPos = FALSE
    /\ canvasRef = NoCanvas
    /\ stagedPhotos = <<>>
    /\ isPhotoPreviewOpen = FALSE
    /\ isProcessingPhotos = FALSE
    /\ fileStatus = <<>>
    /\ processedPhotos = <<>>
    /\ random = 0

Init ==
    /\ InitApp
    /\ photoQuality = NoItem
    /\ element = NoSource
    /\ InitReportScreen

(***************************************************************************)
(* createUser: get(username) and, in its success handler, add(user), both  *)
(* in one readwrite transaction on 'users'.  A call is at "check" once     *)
(* its transaction is created and the get is placed, at "add" once the     *)
(* get has found nothing and the add is placed.                            *)
(***************************************************************************)
CreateUserBegin(c, u) ==
    /\ calls[c].pc = "idle"
    /\ calls' = [calls EXCEPT ![c] = [pc |-> "check", user |-> u,
                                      result |-> "pending"]]
    /\ userTxQueue' = Append(userTxQueue, c)
    /\ UNCHANGED <<users, storeVars, ret, backupFile, exported, written,
                   uiVars>>

\* mutant: every request runs as soon as it is placed
TxActive_Unordered(c) == c \in Range(userTxQueue)

\* the transaction of call c is the one the users store is running
TxActive(c) == userTxQueue # <<>> /\ Head(userTxQueue) = c

TxFinished(c) == SelectSeq(userTxQueue, LAMBDA x : x # c)

\* mutant: the check looks for the same username and password
UserExists_SamePassword(u) ==
    /\ StoreGet(users, u.username) # Undefined
    /\ StoreGet(users, u.username).password = u.password

\* checkRequest.result is a record
UserExists(u) == StoreGet(users, u.username) # Undefined

\* mutant: the call writes its record with a put, whatever is stored
CreateUserCheck_Upsert(c) ==
    /\ calls[c].pc = "check"
    /\ TxActive(c)
    /\ calls' = [calls EXCEPT ![c].pc = "idle", ![c].result = "resolved"]
    /\ users' = StorePut(users, calls[c].user.username, calls[c].user)
    /\ userTxQueue' = TxFinished(c)
    /\ UNCHANGED <<storeVars, ret, backupFile, exported, written, uiVars>>

CreateUserCheck(c) ==
    /\ calls[c].pc = "check"
    /\ TxActive(c)
    /\ IF UserExists(calls[c].user)
       THEN /\ calls' = [calls EXCEPT ![c].pc = "idle",
                                      ![c].result = "Usuário já existe"]
            /\ userTxQueue' = TxFinished(c)
       ELSE /\ calls' = [calls EXCEPT ![c].pc = "add"]
            /\ UNCHANGED userTxQueue
    /\ UNCHANGED <<users, storeVars, ret, backupFile, exported, written,
                   uiVars>>

CreateUserAdd(c) ==
    /\ calls[c].pc = "add"
    /\ TxActive(c)
    /\ IF calls[c].user.username \in DOMAIN users
       THEN /\ calls' = [calls EXCEPT ![c].pc = "idle",
                                      ![c].result = "ConstraintError"]
            /\ UNCHANGED users
       ELSE /\ calls' = [calls EXCEPT ![c].pc = "idle",
                                      ![c].result = "resolved"]
            /\ users' = StorePut(users, calls[c].user.username, calls[c].user)
    /\ userTxQueue' = TxFinished(c)
    /\ UNCHANGED <<storeVars, ret, backupFile, exported, written, uiVars>>

(***************************************************************************)
(* validateUser: the admin/admin pair returns before the database is       *)
(* opened; any other pair is compared with the stored record.  The value   *)
(* settled with is ok; opened (openDB was called) and user (the record     *)
(* the get returned) are kept beside it.                                   *)
(***************************************************************************)
\* mutant: the backdoor is open only while no user is registered
Backdoor_EmptyStoreOnly(username, password) ==
    username = "admin" /\ password = "admin" /\ users = EmptyStore

Backdoor(username, password) == username = "admin" /\ password = "admin"

\* mutant: any stored user matches
PasswordMatches_AnyPassword(user, password) == user # Undefined

\* mutant: a missing user matches
PasswordMatches_MissingUser(user, password) ==
    user = Undefined \/ user.password = password

PasswordMatches(user, password) ==
    user # Undefined /\ user.password = password

ValidateUser(username, password) ==
    /\ ret' = IF Backdoor(username, password)
              THEN Resolved("validateUser",
                            [username |-> username, password |-> password],
                            [ok |-> TRUE, opened |-> FALSE, user |-> Undefined])
              ELSE Resolved("validateUser",
                            [username |-> username, password |-> password],
                            [ok |-> PasswordMatches(StoreGet(users, username),
                                                    password),
                             opened |-> TRUE,
                             user |-> StoreGet(users, username)])
    /\ UNCHANGED <<authVars, storeVars, backupFile, exported, written,
                   uiVars>>

(***************************************************************************)
(* saveTemplate / saveReport: one put in a readwrite transaction.  `ok`    *)
(* is whether the storage engine accepts the write; a failed request       *)
(* aborts the transaction and rejects the promise.                         *)
(***************************************************************************)
SaveTemplate(t, ok) ==
    /\ templates' = IF ok THEN StorePut(templates, t.id, t) ELSE templates
    /\ ret' = [(IF ok THEN Resolved("saveTemplate", t, Undefined)
                      ELSE Rejected("saveTemplate", t, "request"))
                EXCEPT !.pre = Found(templates, t.id, t)]
    /\ UNCHANGED <<reports, authVars, backupFile, exported, written, uiVars>>

SaveReport(r, ok) ==
    /\ reports' = IF ok THEN StorePut(reports, r.id, r) ELSE reports
    /\ ret' = [(IF ok THEN Resolved("saveReport", r, Undefined)
                      ELSE Rejected("saveReport", r, "request"))
                EXCEPT !.pre = Found(reports, r.id, r)]
    /\ written' = IF ok THEN [written EXCEPT ![r.id] = r] ELSE written
    /\ UNCHANGED <<templates, authVars, backupFile, exported, uiVars>>

(***************************************************************************)
(* getTemplates / getReport / getAllReports: one read in a readonly        *)
(* transaction; the promise resolves with request.result.                  *)
(***************************************************************************)
GetTemplates ==
    /\ ret' = Resolved("getTemplates", Undefined,
                       [list |-> StoreGetAll(templates, TemplateIds)])
    /\ UNCHANGED <<storeVars, authVars, backupFile, exported, written,
                   uiVars>>

GetReport(id) ==
    /\ ret' = Resolved("getReport", [id |-> id], StoreGet(reports, id))
    /\ UNCHANGED <<storeVars, authVars, backupFile, exported, written,
                   uiVars>>

GetAllReports ==
    /\ ret' = Resolved("getAllReports", Undefined,
                       [list |-> StoreGetAll(reports, ReportIds)])
    /\ UNCHANGED <<storeVars, authVars, backupFile, exported, written,
                   uiVars>>

(***************************************************************************)
(* deleteTemplate / deleteReport: one delete by key.                       *)
(***************************************************************************)
\* mutant: the delete cascades to the reports made from the template
DeleteTemplate_Cascade(id) ==
    /\ templates' = StoreDelete(templates, id)
    /\ reports' = [k \in {j \in DOMAIN reports : reports[j].templateId # id}
                    |-> reports[k]]
    /\ ret' = [Resolved("deleteTemplate", [id |-> id], Undefined)
                EXCEPT !.pre = Found(templates, id, Undefined)]
    /\ UNCHANGED <<authVars, backupFile, exported, written, uiVars>>

\* tmpls.find(t => t.id === id): the first match, or undefined
FindTemplate(list, id) ==
    IF \E i \in DOMAIN list : list[i].id = id
    THEN list[CHOOSE i \in DOMAIN list :
                /\ list[i].id = id
                /\ \A j \in 1..(i - 1) : list[j].id # id]
    ELSE Undefined

DeleteTemplate(id) ==
    /\ templates' = StoreDelete(templates, id)
    /\ ret' = [Resolved("deleteTemplate", [id |-> id], Undefined)
                EXCEPT !.pre = Found(templates, id, Undefined)]
    /\ UNCHANGED <<reports, authVars, backupFile, exported, written, uiVars>>

DeleteReport(id) ==
    /\ reports' = StoreDelete(reports, id)
    /\ ret' = [Resolved("deleteReport", [id |-> id], Undefined)
                EXCEPT !.pre = Found(reports, id, Undefined)]
    /\ written' = [written EXCEPT ![id] = Undefined]
    /\ UNCHANGED <<templates, authVars, backupFile, exported, uiVars>>

(***************************************************************************)
(* importBackup: the puts of data.templates, then of data.reports, all in  *)
(* one readwrite transaction over both stores.                             *)
(*                                                                         *)
(* puts     the values in the order the two forEach loops reach them       *)
(* failAt   the put whose request the storage engine fails (0: none)       *)
(***************************************************************************)
ImportPuts(data) ==
    [i \in 1..(Len(data.templates) + Len(data.reports)) |->
        IF i <= Len(data.templates)
        THEN [store |-> "templates", v |-> data.templates[i]]
        ELSE [store |-> "reports", v |-> data.reports[i - Len(data.templates)]]]

\* the first put that throws DataError out of the promise executor (0: none)
FirstThrow(puts) ==
    IF \A i \in DOMAIN puts : HasKey(puts[i].v) THEN 0
    ELSE CHOOSE i \in DOMAIN puts :
            /\ ~HasKey(puts[i].v)
            /\ \A j \in 1..(i - 1) : HasKey(puts[j].v)

\* the number of put requests placed before the executor returned or threw
Issued(puts) ==
    IF FirstThrow(puts) = 0 THEN Len(puts) ELSE FirstThrow(puts) - 1

\* req.onerror only sets errorOccurred: the error event is not cancelled, so
\* the transaction of a failed request aborts
TxAborts(errorOccurred) == errorOccurred

\* the puts 1..n in order, without the failed one, applied to one store
RECURSIVE ApplyPuts(_, _, _, _, _)
ApplyPuts(store, name, puts, n, failAt) ==
    IF n = 0 THEN store
    ELSE LET before == ApplyPuts(store, name, puts, n - 1, failAt)
         IN  IF puts[n].store = name /\ n # failAt
             THEN StorePut(before, puts[n].v.id, puts[n].v)
             ELSE before

\* history: the report values the committed puts 1..n leave as last written
RECURSIVE WrittenBy(_, _, _, _)
WrittenBy(w, puts, n, failAt) ==
    IF n = 0 THEN w
    ELSE LET before == WrittenBy(w, puts, n - 1, failAt)
         IN  IF puts[n].store = "reports" /\ n # failAt
             THEN [before EXCEPT ![puts[n].v.id] = puts[n].v]
             ELSE before

ImportOutcome(data, failAt) ==
    LET puts == ImportPuts(data)
        errorOccurred == failAt # 0
    IN  IF FirstThrow(puts) # 0 THEN Rejected("importBackup", data, "DataError")
        ELSE IF TxAborts(errorOccurred)
             THEN Rejected("importBackup", data, "tx.error")
        ELSE IF errorOccurred
             THEN Rejected("importBackup", data, "Erro ao importar alguns itens.")
        ELSE Resolved("importBackup", data, Undefined)

\* a store after the transaction of importBackup(data) has finished
ImportedStore(store, name, data, failAt) ==
    IF TxAborts(failAt # 0) THEN store
    ELSE ApplyPuts(store, name, ImportPuts(data), Issued(ImportPuts(data)), failAt)

ImportedWritten(w, data, failAt) ==
    IF TxAborts(failAt # 0) THEN w
    ELSE WrittenBy(w, ImportPuts(data), Issued(ImportPuts(data)), failAt)

ImportBackup(data, failAt) ==
    /\ failAt \in 0..Issued(ImportPuts(data))
    /\ templates' = ImportedStore(templates, "templates", data, failAt)
    /\ reports' = ImportedStore(reports, "reports", data, failAt)
    /\ written' = ImportedWritten(written, data, failAt)
    /\ ret' = [ImportOutcome(data, failAt) EXCEPT
                  !.arg = [data |-> data, failAt |-> failAt]]
    /\ UNCHANGED <<authVars, backupFile, exported, uiVars>>

\* the items of the backup files and the drafts the import runs are fed with
ImportTemplateItems ==
    {[id |-> TemplateIds[1], title |-> x] : x \in Titles} \cup {[title |-> "A"]}
ImportReportItems ==
    {[id |-> i, templateId |-> TemplateIds[1], updatedAt |-> Num(1)] :
        i \in Range(ReportIds)}
    \cup {[templateId |-> TemplateIds[1]]}
DraftItems ==
    {[id |-> i, templateId |-> TemplateIds[2]] : i \in Range(ReportIds)}

SeqsUpTo(S, n) == UNION {[1..k -> S] : k \in 0..n}

BackupData ==
    {d \in [templates : SeqsUpTo(ImportTemplateItems, MaxItems),
            reports : SeqsUpTo(ImportReportItems, MaxItems)] :
        Len(d.templates) + Len(d.reports) <= MaxItems}

(***************************************************************************)
(* JSON.stringify / JSON.parse of an object: the text holds one member     *)
(* per property whose value is not undefined.                              *)
(***************************************************************************)
\* mutant: the text leaves every optional property out
JSONStringify_NoOptional(o) ==
    {<<f, o[f]>> : f \in DOMAIN o \ OptionalFields}

JSONStringify(o) ==
    {<<f, o[f]>> : f \in {g \in DOMAIN o :
                            ~(g \in OptionalFields /\ o[g] = Undefined)}}

JSONParse(text) ==
    [f \in {m[1] : m \in text} |-> (CHOOSE m \in text : m[1] = f)[2]]

StringifyAll(list) == [i \in DOMAIN list |-> JSONStringify(list[i])]
ParseAll(list) == [i \in DOMAIN list |-> JSONParse(list[i])]

(***************************************************************************)
(* handleExportBackup (settings screen): read both stores, write the       *)
(* backup document {version, timestamp, reports, templates} as JSON.       *)
(***************************************************************************)
HandleExportBackup(now) ==
    LET allReports == StoreGetAll(reports, ReportIds)
        allTemplates == StoreGetAll(templates, TemplateIds)
    IN  /\ backupFile' = [version |-> 1,
                          timestamp |-> now,
                          reports |-> StringifyAll(allReports),
                          templates |-> StringifyAll(allTemplates)]
        /\ exported' = [templates |-> templates, reports |-> reports]
        /\ ret' = Resolved("handleExportBackup", Undefined,
                           [reports |-> Len(allReports),
                            templates |-> Len(allTemplates)])
        /\ UNCHANGED <<storeVars, authVars, written, uiVars>>

(***************************************************************************)
(* handleImportBackup (settings screen): parse the chosen file, require    *)
(* both keys, hand reports and templates to importBackup.                  *)
(***************************************************************************)
HandleImportBackup(failAt) ==
    /\ backupFile # NoFile
    /\ LET valid == {"reports", "templates"} \subseteq DOMAIN backupFile
           data == [reports |-> ParseAll(backupFile.reports),
                    templates |-> ParseAll(backupFile.templates)]
           imported == valid /\ ImportOutcome(data, failAt).outcome = "resolved"
       IN  /\ valid => failAt \in 0..Issued(ImportPuts(data))
           /\ ~valid => failAt = 0
           /\ templates' = IF valid
                           THEN ImportedStore(templates, "templates", data, failAt)
                           ELSE templates
           /\ reports' = IF valid
                         THEN ImportedStore(reports, "reports", data, failAt)
                         ELSE reports
           /\ written' = IF valid THEN ImportedWritten(written, data, failAt)
                         ELSE written
           /\ ret' = IF imported
                     THEN [Resolved("handleImportBackup", [failAt |-> failAt],
                                    [alert |-> "Backup restaurado com sucesso!"])
                           EXCEPT !.pre = IF storeVars = <<EmptyStore, EmptyStore>>
                                          THEN "empty" ELSE "filled"]
                     ELSE Rejected("handleImportBackup", [failAt |-> failAt],
                                   "Erro ao restaurar backup.")
    /\ UNCHANGED <<authVars, backupFile, exported, uiVars>>

(***************************************************************************)
(* HomeScreen.loadData: read both stores, keep the templates newest        *)
(* first, and list the reports with status 'draft', each joined with the   *)
(* title of its template, most recently changed first.                     *)
(***************************************************************************)
\* list.sort((a, b) => key(b) - key(a)): descending by key, equal keys keep
\* their order; keys[i] is the key of list[i]
SortDesc(list, keys) ==
    LET before(i) == {j \in DOMAIN list :
                        keys[j] > keys[i] \/ (keys[j] = keys[i] /\ j < i)}
    IN  [p \in DOMAIN list |->
            list[CHOOSE i \in DOMAIN list : Cardinality(before(i)) = p - 1]]

\* r.status === 'draft'
IsDraft(r) == "status" \in DOMAIN r /\ r.status = "draft"

\* t?.title || 'Modelo Excluído'
TemplateTitle(t) ==
    IF t = Undefined \/ t.title = "" THEN "Modelo Excluído" ELSE t.title

\* { ...r, templateTitle: title }
WithTemplateTitle(r, title) ==
    [f \in DOMAIN r \cup {"templateTitle"} |->
        IF f = "templateTitle" THEN title ELSE r[f]]

\* mutant: a draft is listed only when its template is found
DraftList_InnerJoin(all, tmpls) ==
    LET found == SelectSeq(all, LAMBDA r :
                     IsDraft(r) /\ FindTemplate(tmpls, r.templateId) # Undefined)
    IN  [i \in DOMAIN found |->
            WithTemplateTitle(found[i],
                TemplateTitle(FindTemplate(tmpls, found[i].templateId)))]

\* reports.filter(...).map(...)
DraftList(all, tmpls) ==
    LET found == SelectSeq(all, IsDraft)
    IN  [i \in DOMAIN found |->
            WithTemplateTitle(found[i],
                TemplateTitle(FindTemplate(tmpls, found[i].templateId)))]

\* b.updatedAt || b.createdAt
DraftKey(r) ==
    IF Prop(r, "updatedAt") # Undefined THEN r.updatedAt.v ELSE r.createdAt

HomeLoadData ==
    LET tmpls == StoreGetAll(templates, TemplateIds)
        all == StoreGetAll(reports, ReportIds)
        sorted == SortDesc(tmpls, [i \in DOMAIN tmpls |-> tmpls[i].createdAt])
        draftList == DraftList(all, sorted)
    IN  /\ homeScreen' =
              [templates |-> sorted,
               drafts |-> SortDesc(draftList,
                              [i \in DOMAIN draftList |-> DraftKey(draftList[i])])]
        /\ ret' = Resolved("loadData", Undefined, Undefined)
        /\ UNCHANGED <<dbVars, imageVars, reportVars, formVars>>

\* the templates and reports the home screen is shown with
HomeTemplateItems ==
    {[id |-> TemplateIds[1], title |-> "A", createdAt |-> 1],
     [id |-> TemplateIds[2], title |-> "", createdAt |-> 2]}
HomeReportItems ==
    [id : Range(ReportIds), templateId : Range(TemplateIds),
     status : {"draft", "completed"}, createdAt : {1}]
    \cup [id : {ReportIds[2]}, templateId : {TemplateIds[1]},
          status : {"draft"}, createdAt : {1}, updatedAt : {Num(2)}]

(***************************************************************************)
(* The image pipeline: getPhotoQuality and processImage.                   *)
(*                                                                         *)
(* A string that is a data URL or '' is a record: EmptyString for '',      *)
(* EmptyDataURL for 'data:,' (what toDataURL gives for a canvas without    *)
(* pixels) and otherwise the picture, its size and the JPEG quality in     *)
(* tenths.  A picture is what was drawn: a base (a camera frame or the     *)
(* content of a file, numbered, or a decoded data URL, or nothing) and     *)
(* the number of segments of ink drawn over it.  Widths and heights are exact integers; the two    *)
(* divisions the code makes in doubles are modelled by FloorScaled.        *)
(***************************************************************************)
\* the picture of camera frame or file content n, without ink
Raw(n) == [base |-> [t |-> "raw", n |-> n], ink |-> 0]

PHOTO_SETTINGS ==
    [high   |-> [maxWidth |-> 1600, quality |-> 8],
     medium |-> [maxWidth |-> 1024, quality |-> 7],
     low    |-> [maxWidth |-> 800,  quality |-> 6]]

\* a property every object inherits: PHOTO_SETTINGS[k] is a function then
InheritedKeys == {"constructor"}

\* localStorage.getItem('photoQuality') || 'medium'
GetPhotoQuality(item) ==
    IF item = NoItem \/ item = "" THEN "medium" ELSE item

\* PHOTO_SETTINGS[qualityMode]
SettingsOf(qualityMode) ==
    IF qualityMode \in DOMAIN PHOTO_SETTINGS THEN PHOTO_SETTINGS[qualityMode]
    ELSE IF qualityMode \in InheritedKeys THEN [inherited |-> qualityMode]
    ELSE Undefined

EmptyString == [t |-> "string", v |-> ""]
EmptyDataURL == [t |-> "string", v |-> "data:,"]

\* canvas.toDataURL('image/jpeg', quality) of a canvas showing picture
ToDataURL(picture, canvas, quality) ==
    IF canvas.width = 0 \/ canvas.height = 0 THEN EmptyDataURL
    ELSE [t |-> "image/jpeg", picture |-> picture, width |-> canvas.width,
          height |-> canvas.height, quality |-> quality]

RECURSIVE GCD(_, _)
GCD(a, b) == IF b = 0 THEN a ELSE GCD(b, a % b)

\* a / b is a double: b has no odd factor left after cancelling
ExactRatio(a, b) ==
    LET d == b \div GCD(a, b)
    IN  \E k \in 0..30 : d = 2^k

\* Math.floor of m * a / b as the code computes it, through the double
\* width / height: where m * a / b is a whole number and width / height is
\* not a double, the rounded result can fall just below it (down)
FloorScaled(m, a, b, down) ==
    IF (m * a) % b = 0 /\ ~ExactRatio(a, b) /\ down
    THEN (m * a) \div b - 1
    ELSE (m * a) \div b

\* the resize of lines 75-88, for a limit that is a number
Resized(width, height, maxWidth, down) ==
    IF width > maxWidth \/ height > maxWidth
    THEN IF width > height
         THEN [width |-> maxWidth,
               height |-> FloorScaled(maxWidth, height, width, down)]
         ELSE [width |-> FloorScaled(maxWidth, width, height, down),
               height |-> maxWidth]
    ELSE [width |-> width, height |-> height]

IsVideo(source) == "videoWidth" \in DOMAIN source
SourceWidth(source) ==
    IF IsVideo(source) THEN source.videoWidth ELSE source.naturalWidth
SourceHeight(source) ==
    IF IsVideo(source) THEN source.videoHeight ELSE source.naturalHeight

\* mutant: the dimensions are not looked at
ZeroGuard_AfterCanvas(width, height) == FALSE

\* !width || !height || width === 0 || height === 0
ZeroGuard(width, height) == width = 0 \/ height = 0

\* processImage(source) with item stored under 'photoQuality'; ctxOk: the
\* canvas gives a 2d context.  What comes back is the outcome, the value
\* returned or thrown, the canvas created (if any) and the tier used.
ProcessImage(source, item, ctxOk, down) ==
    LET qualityMode == GetPhotoQuality(item)
        settings == SettingsOf(qualityMode)
        width == SourceWidth(source)
        height == SourceHeight(source)
        \* a limit of undefined compares false with every width
        size == IF "maxWidth" \in DOMAIN settings
                THEN Resized(width, height, settings.maxWidth, down)
                ELSE [width |-> width, height |-> height]
        quality == IF "quality" \in DOMAIN settings
                   THEN Num(settings.quality) ELSE Undefined
    IN  IF ZeroGuard(width, height)
        THEN [outcome |-> "returned", value |-> EmptyString,
              canvas |-> Undefined, qualityMode |-> qualityMode]
        ELSE IF settings = Undefined
        THEN [outcome |-> "thrown", value |-> [error |-> "TypeError"],
              canvas |-> Undefined, qualityMode |-> qualityMode]
        ELSE IF ~ctxOk
        THEN [outcome |-> "returned", value |-> EmptyString,
              canvas |-> size, qualityMode |-> qualityMode]
        ELSE [outcome |-> "returned",
              value |-> ToDataURL(source.picture, size, quality),
              canvas |-> size, qualityMode |-> qualityMode]

\* SettingsScreen.handleSelect(q)
HandleSelect(q) ==
    /\ photoQuality' = q
    /\ UNCHANGED <<dbVars, ret, homeScreen, formVars, element, reportVars>>

\* one call processImage(source)
ProcessImageCall(ctxOk, down) ==
    LET r == ProcessImage(element, photoQuality, ctxOk, down)
        arg == [source |-> element, item |-> photoQuality]
    IN  /\ ret' = IF r.outcome = "thrown"
                  THEN Rejected("processImage", arg, r.value.error)
                  ELSE Resolved("processImage", arg,
                                [url |-> r.value, canvas |-> r.canvas,
                                 qualityMode |-> r.qualityMode])
        /\ UNCHANGED <<dbVars, uiVars>>

\* the items the browser can hold under 'photoQuality' when the app starts,
\* and the sources: every pair of sides, as a video frame and as an image
MaxSteps == 8
StoredItems == {NoItem, "", "ultra"} \cup DOMAIN PHOTO_SETTINGS \cup InheritedKeys
ImageSides ==
    {0, 1, 2, 30, 100}
    \cup UNION {{PHOTO_SETTINGS[q].maxWidth - 1, PHOTO_SETTINGS[q].maxWidth,
                 PHOTO_SETTINGS[q].maxWidth + 1} : q \in DOMAIN PHOTO_SETTINGS}
    \cup {500 * k : k \in 1..MaxSteps}
Sources ==
    [picture : {Raw(0)}, videoWidth : ImageSides, videoHeight : ImageSides]
    \cup [picture : {Raw(1)}, naturalWidth : ImageSides,
          naturalHeight : ImageSides]

(***************************************************************************)
(* ReportScreen: the camera modal.  Opening it calls getUserMedia; the     *)
(* effect of closing it stops the tracks of streamRef.current.  A step     *)
(* is a handler together with the render and the effect that follow it.    *)
(***************************************************************************)
MaxStreams == 2      \* getUserMedia is called at most MaxStreams times
MaxPhotos == 2       \* the report holds at most MaxPhotos photos
MaxFiles == 3        \* a batch has at most MaxFiles files
MaxRandom == 4       \* Math.random() is called at most MaxRandom times
MaxStrokes == 2      \* the segments drawn in one editor session
MaxEdits == 2        \* the commits of the editor carried by the photos

\* the clock moves on
Tick ==
    /\ dateNow < MaxClock
    /\ dateNow' = dateNow + 1
    /\ UNCHANGED <<dbVars, ret, homeScreen, formVars,
                   imageVars, photos, imageCall,
                   cameraVars,
                   editorVars, stagingVars, uploadVars>>

\* the effect of [isCameraOpen] when the modal has just been closed
StopTracks(all, ref) ==
    [i \in DOMAIN all |-> IF i = ref THEN "stopped" ELSE all[i]]

\* the camera button: setIsCameraOpen(true), then startCamera()
OpenCamera ==
    /\ ~isCameraOpen
    /\ Len(streams) + requests < MaxStreams
    /\ isCameraOpen' = TRUE
    /\ requests' = requests + 1
    /\ UNCHANGED <<dbVars, ret, homeScreen, formVars, imageVars, photoVars,
                   streamRef, video, streams,
                   editorVars, stagingVars, uploadVars>>

\* getUserMedia resolves with a new stream
UserMediaResolve ==
    /\ requests > 0
    /\ requests' = requests - 1
    /\ streams' = Append(streams, "live")
    /\ streamRef' = Len(streams) + 1
    /\ video' = IF isCameraOpen THEN Len(streams) + 1 ELSE video
    /\ UNCHANGED <<dbVars, ret, homeScreen, formVars, imageVars, photoVars,
                   isCameraOpen,
                   editorVars, stagingVars, uploadVars>>

\* getUserMedia rejects: alert, setIsCameraOpen(false)
UserMediaReject ==
    /\ requests > 0
    /\ requests' = requests - 1
    /\ isCameraOpen' = FALSE
    /\ video' = 0
    /\ streams' = IF isCameraOpen THEN StopTracks(streams, streamRef)
                  ELSE streams
    /\ streamRef' = IF isCameraOpen THEN 0 ELSE streamRef
    /\ ret' = Rejected("startCamera", Undefined,
                       "Não foi possível acessar a câmera.")
    /\ UNCHANGED <<dbVars, homeScreen, formVars, imageVars, photoVars,
                   editorVars, stagingVars, uploadVars>>

\* the Cancelar button of the modal: setIsCameraOpen(false)
CancelCamera ==
    /\ isCameraOpen
    /\ isCameraOpen' = FALSE
    /\ video' = 0
    /\ streams' = StopTracks(streams, streamRef)
    /\ streamRef' = 0
    /\ ret' = Resolved("cancelCamera", Undefined, Undefined)
    /\ UNCHANGED <<dbVars, homeScreen, formVars,
                   imageVars, photoVars, requests,
                   editorVars, stagingVars, uploadVars>>

\* the frame of the video element: nothing until a live stream is shown
\* and its first frame has arrived (ready)
VideoFrame(ready) ==
    IF video # 0 /\ streams[video] = "live" /\ ready
    THEN [picture |-> Raw(0), videoWidth |-> 1920, videoHeight |-> 1080]
    ELSE [picture |-> Raw(0), videoWidth |-> 0, videoHeight |-> 0]

\* if (processedBase64), if (base64): '' is the one falsy string
Truthy(string) == string # EmptyString

\* the shutter button: capturePhoto()
CapturePhoto(ready, ctxOk) ==
    /\ isCameraOpen
    /\ Len(photos) < MaxPhotos
    /\ LET r == ProcessImage(VideoFrame(ready), photoQuality, ctxOk, FALSE)
           newPhoto == [id |-> [time |-> dateNow], base64 |-> r.value,
                        caption |-> ""]
           taken == r.outcome = "returned" /\ Truthy(r.value)
       IN  /\ photos' = IF taken THEN Append(photos, newPhoto) ELSE photos
           /\ isCameraOpen' = IF taken THEN FALSE ELSE isCameraOpen
           /\ video' = IF taken THEN 0 ELSE video
           /\ streams' = IF taken THEN StopTracks(streams, streamRef)
                         ELSE streams
           /\ streamRef' = IF taken THEN 0 ELSE streamRef
           /\ imageCall' = [tick |-> 1 - imageCall.tick,
                            source |-> VideoFrame(ready), result |-> r]
           /\ ret' = IF r.outcome = "thrown"
                     THEN Rejected("capturePhoto",
                                   [source |-> VideoFrame(ready)],
                                   r.value.error)
                     ELSE Resolved("capturePhoto",
                                   [source |-> VideoFrame(ready)],
                                   [url |-> r.value, canvas |-> r.canvas])
    /\ UNCHANGED <<dbVars, homeScreen, formVars, imageVars, dateNow, requests,
                   editorVars, stagingVars, uploadVars>>

(***************************************************************************)
(* ReportScreen.handlePhotoUpload: for each file in turn, read it as a     *)
(* data URL, decode that into an image, run processImage on the image.     *)
(* The status of a file goes queued, reading, decoding and then done (a    *)
(* photo was made), empty (processImage gave '') or one of Failed.  The    *)
(* step                                                                    *)
(* in which a file settles also runs what follows the await: the read of   *)
(* the next file or, after the last file, the end of the handler.          *)
(***************************************************************************)
\* the statuses of a file whose promise was rejected: by reader.onerror,
\* by img.onerror, by an exception of processImage
Failed == {"unreadable", "undecodable", "failed"}

\* mutant: a file whose promise was rejected is never through
Settled_OnlyResolved(status) == status \in {"done", "empty"}

Settled(status) == status \in {"done", "empty"} \cup Failed

\* mutant: every file is read at once
LoopStarts_AllAtOnce(n, settled) == IF settled = 0 THEN 1..n ELSE {}

\* for (const file of files) { ... await ... }: the files whose read begins
\* when the handler is called (settled = 0) or when file `settled` is through
LoopStarts(n, settled) == IF settled < n THEN {settled + 1} ELSE {}

\* the file input changed with n files, n > 0
HandlePhotoUpload(n) ==
    /\ ~isProcessingPhotos
    /\ random + n <= MaxRandom
    /\ isProcessingPhotos' = TRUE
    /\ processedPhotos' = <<>>
    /\ fileStatus' = [i \in 1..n |->
                        IF i \in LoopStarts(n, 0) THEN "reading" ELSE "queued"]
    /\ UNCHANGED <<dbVars, ret, homeScreen, formVars,
                   imageVars, photoVars, cameraVars,
                   editorVars, stagingVars, random>>

\* reader.onload of file i: img.src = event.target.result
ReaderLoad(i) ==
    /\ isProcessingPhotos
    /\ fileStatus[i] = "reading"
    /\ fileStatus' = [fileStatus EXCEPT ![i] = "decoding"]
    /\ UNCHANGED <<dbVars, ret, homeScreen, formVars,
                   imageVars, photoVars, cameraVars,
                   editorVars, stagingVars, isProcessingPhotos,
                   processedPhotos, random>>

\* mutant: a file that failed ends the batch without staging anything
AfterLoop_AbortOnFailure(status, processed) ==
    IF \E j \in DOMAIN status : status[j] \in Failed THEN <<>> ELSE processed

\* what the end of the handler hands to setStagedPhotos
AfterLoop(status, processed) == processed

\* file i settles with status, having made the photos `made` (none or one)
FileSettles(i, status, made) ==
    LET n == Len(fileStatus)
        after == [j \in 1..n |->
                    IF j = i THEN status
                    ELSE IF j \in LoopStarts(n, i) /\ fileStatus[j] = "queued"
                         THEN "reading"
                         ELSE fileStatus[j]]
        processed == processedPhotos \o made
        finished == \A j \in 1..n : Settled(after[j])
        staged == AfterLoop(after, processed)
    IN  /\ fileStatus' = after
        /\ processedPhotos' = processed
        /\ isProcessingPhotos' = ~finished
        /\ stagedPhotos' = IF finished /\ Len(staged) > 0
                           THEN stagedPhotos \o staged ELSE stagedPhotos
        /\ isPhotoPreviewOpen' = IF finished /\ Len(staged) > 0
                                 THEN TRUE ELSE isPhotoPreviewOpen
        /\ ret' = IF ~finished THEN ret
                  ELSE IF Len(staged) > 0
                  THEN Resolved("handlePhotoUpload", [files |-> n], Undefined)
                  ELSE Resolved("handlePhotoUpload", [files |-> n],
                                [alert |-> "Nenhuma imagem pôde ser processada."])

\* reader.onerror of file i
ReaderError(i) ==
    /\ isProcessingPhotos
    /\ fileStatus[i] = "reading"
    /\ FileSettles(i, "unreadable", <<>>)
    /\ UNCHANGED <<dbVars, homeScreen, formVars,
                   imageVars, photoVars, cameraVars,
                   editorVars, random>>

\* img.onerror of file i
ImageError(i) ==
    /\ isProcessingPhotos
    /\ fileStatus[i] = "decoding"
    /\ FileSettles(i, "undecodable", <<>>)
    /\ UNCHANGED <<dbVars, homeScreen, formVars,
                   imageVars, photoVars, cameraVars,
                   editorVars, random>>

\* img.onload of file i, the image being size[1] by size[2]: processImage,
\* then the push of the new photo
ImageLoad(i, size, ctxOk) ==
    /\ isProcessingPhotos
    /\ fileStatus[i] = "decoding"
    /\ LET img == [picture |-> Raw(i), naturalWidth |-> size[1],
                   naturalHeight |-> size[2]]
           r == ProcessImage(img, photoQuality, ctxOk, FALSE)
           photo == [id |-> [time |-> dateNow, random |-> random + 1],
                     base64 |-> r.value, caption |-> ""]
       IN  /\ imageCall' = [tick |-> 1 - imageCall.tick, source |-> img,
                            result |-> r]
           /\ IF r.outcome = "thrown"
              THEN FileSettles(i, "failed", <<>>) /\ UNCHANGED random
              ELSE IF Truthy(r.value)
              THEN FileSettles(i, "done", <<photo>>) /\ random' = random + 1
              ELSE FileSettles(i, "empty", <<>>) /\ UNCHANGED random
    /\ UNCHANGED <<dbVars, homeScreen, formVars,
                   imageVars, dateNow, photos, cameraVars,
                   editorVars>>

\* the sizes of the images the picked files decode to
UploadSizes == {<<640, 480>>, <<0, 0>>}

(***************************************************************************)
(* ReportScreen: the preview of the staged photos.                         *)
(***************************************************************************)
RemoveStagedPhoto(index) ==
    /\ isPhotoPreviewOpen
    /\ index \in DOMAIN stagedPhotos
    /\ stagedPhotos' = [i \in 1..(Len(stagedPhotos) - 1) |->
                          IF i < index THEN stagedPhotos[i]
                          ELSE stagedPhotos[i + 1]]
    /\ ret' = Resolved("removeStagedPhoto", [index |-> index], Undefined)
    /\ UNCHANGED <<dbVars, homeScreen, formVars,
                   imageVars, photoVars, cameraVars,
                   editorVars, isPhotoPreviewOpen, uploadVars>>

ConfirmStagedPhotos ==
    /\ isPhotoPreviewOpen
    /\ Len(photos) + Len(stagedPhotos) <= MaxPhotos
    /\ photos' = photos \o stagedPhotos
    /\ stagedPhotos' = <<>>
    /\ isPhotoPreviewOpen' = FALSE
    /\ ret' = Resolved("confirmStagedPhotos", Undefined, Undefined)
    /\ UNCHANGED <<dbVars, homeScreen, formVars, imageVars, dateNow, imageCall,
                   cameraVars, editorVars, uploadVars>>

\* mutant: the preview is closed with the staged photos kept
CancelStagedPhotos_KeepStaged ==
    /\ isPhotoPreviewOpen
    /\ isPhotoPreviewOpen' = FALSE
    /\ ret' = Resolved("cancelStagedPhotos", Undefined, Undefined)
    /\ UNCHANGED <<dbVars, homeScreen, formVars,
                   imageVars, photoVars, cameraVars,
                   editorVars, stagedPhotos, uploadVars>>

CancelStagedPhotos ==
    /\ isPhotoPreviewOpen
    /\ stagedPhotos' = <<>>
    /\ isPhotoPreviewOpen' = FALSE
    /\ ret' = Resolved("cancelStagedPhotos", Undefined, Undefined)
    /\ UNCHANGED <<dbVars, homeScreen, formVars,
                   imageVars, photoVars, cameraVars,
                   editorVars, uploadVars>>

(***************************************************************************)
(* ReportScreen: the photo editor.  The canvas exists while the editor     *)
(* is shown.  It starts without a picture; img.onload of the effect of     *)
(* [editorOpen, currentPhoto] sizes it to the photo, which clears it,      *)
(* and draws the photo.  drawn counts the segments drawn since the         *)
(* editor was opened (history).                                            *)
(***************************************************************************)
Blank == [t |-> "blank"]
\* two of the four colours of the palette
Colors == {"#ef4444", "#3b82f6"}
Captions == {"a", "b"}

\* the number of times a data URL went through the editor
RECURSIVE Edits(_)
Edits(url) ==
    IF "picture" \notin DOMAIN url THEN 0
    ELSE IF url.picture.base.t = "raw" THEN 0
    ELSE IF url.picture.base.t = "blank" THEN 1
    ELSE 1 + Edits(url.picture.base)

\* the browser can decode the data URL into an image
Decodable(url) == url.t = "image/jpeg"

\* the commits of the editor that the photos of a list went through
RECURSIVE TotalEdits(_)
TotalEdits(list) ==
    IF list = <<>> THEN 0
    ELSE Edits(Head(list).base64) + TotalEdits(Tail(list))

\* a click on photo number i of the report: openEditor(photo)
OpenEditor(i) ==
    /\ ~editorOpen
    /\ i \in DOMAIN photos
    /\ TotalEdits(photos) < MaxEdits
    /\ currentPhoto' = photos[i]
    /\ editCaption' = photos[i].caption
    /\ editorOpen' = TRUE
    /\ isDrawingMode' = FALSE
    /\ canvasRef' = [loaded |-> FALSE, base |-> Blank, ink |-> 0,
                     width |-> 300, height |-> 150, drawn |-> 0]
    /\ ret' = Resolved("openEditor", [index |-> i], [photos |-> photos])
    /\ UNCHANGED <<dbVars, homeScreen, formVars,
                   imageVars, photoVars, cameraVars,
                   drawColor, isDrawing, lastPos, stagingVars, uploadVars>>

\* img.onload of the editor's effect
EditorImageLoad ==
    /\ editorOpen
    /\ ~canvasRef.loaded
    /\ Decodable(currentPhoto.base64)
    /\ canvasRef' = [canvasRef EXCEPT !.loaded = TRUE,
                                      !.base = currentPhoto.base64,
                                      !.ink = 0,
                                      !.width = currentPhoto.base64.width,
                                      !.height = currentPhoto.base64.height]
    /\ UNCHANGED <<dbVars, ret, homeScreen, formVars,
                   imageVars, photoVars, cameraVars,
                   editorOpen, currentPhoto, editCaption, isDrawingMode,
                   drawColor, isDrawing, lastPos, stagingVars, uploadVars>>

\* the RABISCAR button: setIsDrawingMode(!isDrawingMode)
ToggleDrawingMode ==
    /\ editorOpen
    /\ isDrawingMode' = ~isDrawingMode
    /\ UNCHANGED <<dbVars, ret, homeScreen, formVars,
                   imageVars, photoVars, cameraVars,
                   editorOpen, currentPhoto, editCaption, drawColor,
                   isDrawing, lastPos, canvasRef, stagingVars, uploadVars>>

\* a button of the palette, shown in drawing mode: setDrawColor(color)
SetDrawColor(color) ==
    /\ editorOpen
    /\ isDrawingMode
    /\ drawColor' = color
    /\ UNCHANGED <<dbVars, ret, homeScreen, formVars,
                   imageVars, photoVars, cameraVars,
                   editorOpen, currentPhoto, editCaption, isDrawingMode,
                   isDrawing, lastPos, canvasRef, stagingVars, uploadVars>>

\* the caption input: setEditCaption(text)
SetEditCaption(text) ==
    /\ editorOpen
    /\ editCaption' = text
    /\ UNCHANGED <<dbVars, ret, homeScreen, formVars,
                   imageVars, photoVars, cameraVars,
                   editorOpen, currentPhoto, isDrawingMode, drawColor,
                   isDrawing, lastPos, canvasRef, stagingVars, uploadVars>>

\* mouse down / touch start on the canvas
StartDrawing ==
    /\ editorOpen
    /\ isDrawingMode
    /\ isDrawing' = TRUE
    /\ lastPos' = TRUE
    /\ UNCHANGED <<dbVars, ret, homeScreen, formVars,
                   imageVars, photoVars, cameraVars,
                   editorOpen, currentPhoto, editCaption, isDrawingMode,
                   drawColor, canvasRef, stagingVars, uploadVars>>

\* mutant: a move draws whenever a stroke is open
CanDraw_AnyMode == isDrawing /\ lastPos

\* draw goes on: isDrawing, isDrawingMode and lastPos.current are set
CanDraw == isDrawing /\ isDrawingMode /\ lastPos

\* mouse / touch move on the canvas: a segment from lastPos in drawColor
Draw ==
    /\ editorOpen
    /\ CanDraw
    /\ canvasRef.drawn < MaxStrokes
    /\ canvasRef' = [canvasRef EXCEPT !.ink = @ + 1,
                                      !.drawn = @ + 1]
    /\ UNCHANGED <<dbVars, ret, homeScreen, formVars,
                   imageVars, photoVars, cameraVars,
                   editorOpen, currentPhoto, editCaption, isDrawingMode,
                   drawColor, isDrawing, lastPos, stagingVars, uploadVars>>

\* mouse up / leave, touch end
StopDrawing ==
    /\ editorOpen
    /\ isDrawing' = FALSE
    /\ lastPos' = FALSE
    /\ UNCHANGED <<dbVars, ret, homeScreen, formVars,
                   imageVars, photoVars, cameraVars,
                   editorOpen, currentPhoto, editCaption, isDrawingMode,
                   drawColor, canvasRef, stagingVars, uploadVars>>

\* mutant: the X button keeps what is on the canvas, as the commit does
CloseEditor_Commits ==
    /\ editorOpen
    /\ photos' = [i \in DOMAIN photos |->
                    IF photos[i].id = currentPhoto.id
                    THEN [photos[i] EXCEPT !.base64 =
                            ToDataURL([base |-> canvasRef.base,
                                       ink |-> canvasRef.ink],
                                      canvasRef, Num(9))]
                    ELSE photos[i]]
    /\ editorOpen' = FALSE
    /\ canvasRef' = NoCanvas
    /\ ret' = Resolved("closeEditor", [drawn |-> canvasRef.drawn], Undefined)
    /\ UNCHANGED <<dbVars, homeScreen, formVars, imageVars, dateNow, imageCall,
                   cameraVars, currentPhoto, editCaption, isDrawingMode,
                   drawColor, isDrawing, lastPos, stagingVars, uploadVars>>

\* the X button of the editor: setEditorOpen(false)
CloseEditor ==
    /\ editorOpen
    /\ editorOpen' = FALSE
    /\ canvasRef' = NoCanvas
    /\ ret' = Resolved("closeEditor", [drawn |-> canvasRef.drawn], Undefined)
    /\ UNCHANGED <<dbVars, homeScreen, formVars,
                   imageVars, photoVars, cameraVars,
                   currentPhoto, editCaption, isDrawingMode, drawColor,
                   isDrawing, lastPos, stagingVars, uploadVars>>

\* mutant: the commit leaves the caption of the photo as it was
EditedPhoto_KeepCaption(p, newBase64, caption) ==
    [f \in DOMAIN p \cup {"edited"} |->
        IF f = "base64" THEN newBase64
        ELSE IF f = "edited" THEN TRUE
        ELSE p[f]]

\* { ...p, base64: newBase64, caption: editCaption, edited: true }
EditedPhoto(p, newBase64, caption) ==
    [f \in DOMAIN p \cup {"edited"} |->
        IF f = "base64" THEN newBase64
        ELSE IF f = "caption" THEN caption
        ELSE IF f = "edited" THEN TRUE
        ELSE p[f]]

\* the Salvar button of the editor: saveEditorChanges()
SaveEditorChanges ==
    /\ editorOpen
    /\ LET newBase64 ==
              ToDataURL([base |-> canvasRef.base, ink |-> canvasRef.ink],
                        canvasRef, Num(9))
       IN  photos' = [i \in DOMAIN photos |->
                        IF photos[i].id = currentPhoto.id
                        THEN EditedPhoto(photos[i], newBase64, editCaption)
                        ELSE photos[i]]
    /\ editorOpen' = FALSE
    /\ isDrawingMode' = FALSE
    /\ canvasRef' = NoCanvas
    /\ ret' = Resolved("saveEditorChanges",
                       [id |-> currentPhoto.id, caption |-> editCaption,
                        drawn |-> canvasRef.drawn, loaded |-> canvasRef.loaded],
                       Undefined)
    /\ UNCHANGED <<dbVars, homeScreen, formVars, imageVars, dateNow, imageCall,
                   cameraVars, currentPhoto, editCaption, drawColor,
                   isDrawing, lastPos, stagingVars, uploadVars>>

\* the EXCLUIR button of the editor, confirmed: removePhoto(currentPhoto.id)
RemovePhoto ==
    /\ editorOpen
    /\ photos' = SelectSeq(photos, LAMBDA p : p.id # currentPhoto.id)
    /\ editorOpen' = FALSE
    /\ canvasRef' = NoCanvas
    /\ ret' = Resolved("removePhoto", [id |-> currentPhoto.id], Undefined)
    /\ UNCHANGED <<dbVars, homeScreen, formVars, imageVars, dateNow, imageCall,
                   cameraVars, currentPhoto, editCaption, isDrawingMode,
                   drawColor, isDrawing, lastPos, stagingVars, uploadVars>>

(***************************************************************************)
(* ReportScreen: the form.  loadData runs once the screen is mounted;      *)
(* the two reads of the store it makes are one step.  handleSaveDraft is   *)
(* one step with the put it awaits (the button is disabled while saving).  *)
(* handleGeneratePDF validates and starts a timer; the timer calls the     *)
(* document renderer.                                                      *)
(***************************************************************************)
Required == {"omNumber", "equipment", "technicians"}

\* what is typed into a required field
FieldValues == {<<>>, <<" ">>, <<"x">>, <<" ", "x">>}

\* mutant: the value is taken as it is
Trim_Nothing(string) == string

\* String.prototype.trim
RECURSIVE Trim(_)
Trim(string) ==
    IF string = <<>> THEN <<>>
    ELSE IF Head(string) = " " THEN Trim(Tail(string))
    ELSE IF string[Len(string)] = " "
    THEN Trim(SubSeq(string, 1, Len(string) - 1))
    ELSE string

\* !formData[f]?.trim()
FieldMissing(data, f) == f \notin DOMAIN data \/ Trim(data[f]) = <<>>

\* the form is rendered: not loading, and template is not null
FormRendered == route.screen = "report" /\ ~loading /\ template # Null

\* a link of the home screen: /report/new/:templateId or
\* /report/edit/:reportId; ReportScreen is mounted
OpenReportScreen(params) ==
    /\ route = Home
    /\ route' = [j \in DOMAIN params \cup {"screen"} |->
                    IF j = "screen" THEN "report" ELSE params[j]]
    /\ template' = Null
    /\ loading' = TRUE
    /\ formData' = NewFormData
    /\ errors' = {}
    /\ generatingPdf' = Null
    /\ photos' = <<>>
    /\ ret' = Resolved("openReportScreen", params, Undefined)
    /\ UNCHANGED <<dbVars, homeScreen, imageVars, dateNow, imageCall,
                   cameraVars, editorVars, stagingVars, uploadVars>>

\* the way back to the home screen; ReportScreen is unmounted
GoHome ==
    /\ route # Home
    /\ route' = Home
    /\ ret' = Resolved("goHome", Undefined, Undefined)
    /\ UNCHANGED <<dbVars, homeScreen, imageVars, reportVars, template,
                   loading, formData, errors, generatingPdf>>

\* an object without its property f
Omit(o, f) == [j \in DOMAIN o \ {f} |-> o[j]]

\* mutant: a template that is not stored is replaced by a sentinel
LoadTemplate_Sentinel(id) ==
    IF id \in DOMAIN templates THEN templates[id]
    ELSE [id |-> id, title |-> "Modelo Excluído"]

\* (await db.getTemplates()).find(t => t.id === id)
LoadTemplate(id) == FindTemplate(StoreGetAll(templates, TemplateIds), id)

\* loadData of ReportScreen
LoadData ==
    /\ route.screen = "report"
    /\ loading
    /\ LET reportData == IF "reportId" \in DOMAIN route
                         THEN StoreGet(reports, route.reportId)
                         ELSE Undefined
           thrown == reportData # Undefined /\ "photos" \notin DOMAIN reportData
           tmpl == IF "reportId" \in DOMAIN route
                   THEN IF reportData # Undefined
                           /\ "templateId" \in DOMAIN reportData
                        THEN LoadTemplate(reportData.templateId)
                        ELSE Undefined
                   ELSE LoadTemplate(route.templateId)
       IN  /\ formData' = IF reportData # Undefined /\ ~thrown
                          THEN Omit(reportData, "photos") ELSE formData
           /\ photos' = IF reportData # Undefined /\ ~thrown
                        THEN reportData.photos ELSE photos
           /\ template' = IF ~thrown /\ tmpl # Undefined THEN tmpl
                          ELSE template
           /\ route' = IF ~thrown /\ tmpl = Undefined THEN Home ELSE route
           /\ ret' = Resolved("loadData", Omit(route, "screen"),
                              [report |-> reportData, template |-> tmpl,
                               caught |-> thrown])
    /\ loading' = FALSE
    /\ UNCHANGED <<dbVars, homeScreen, imageVars, dateNow, imageCall,
                   cameraVars, editorVars, stagingVars, uploadVars, errors,
                   generatingPdf>>

\* onChange of the input of a required field
SetField(f, v) ==
    /\ FormRendered
    /\ formData' = [j \in DOMAIN formData \cup {f} |->
                      IF j = f THEN v ELSE formData[j]]
    /\ errors' = errors \ {f}
    /\ ret' = Resolved("setField", [field |-> f], Undefined)
    /\ UNCHANGED <<dbVars, homeScreen, imageVars, reportVars, route, template,
                   loading, generatingPdf>>

\* Date.now().toString()
TimeId(time) == ToString(time)

\* formData.id || Date.now().toString()
DraftId(data, time) == IF "id" \in DOMAIN data THEN data.id ELSE TimeId(time)

\* formData.createdAt || Date.now()
CreatedAt(data, time) ==
    IF "createdAt" \in DOMAIN data THEN data.createdAt ELSE time

\* { ...formData, id, templateId: template.id, status: 'draft', createdAt,
\*   updatedAt: Date.now() }
Draft(data, list, tmpl, time) ==
    [j \in DOMAIN data \cup {"photos", "id", "templateId", "status",
                             "createdAt", "updatedAt"} |->
        IF j = "photos" THEN list
        ELSE IF j = "id" THEN DraftId(data, time)
        ELSE IF j = "templateId" THEN tmpl.id
        ELSE IF j = "status" THEN "draft"
        ELSE IF j = "createdAt" THEN CreatedAt(data, time)
        ELSE IF j = "updatedAt" THEN time
        ELSE data[j]]

\* handleSaveDraft; ok: the storage engine accepts the put
HandleSaveDraft(ok) ==
    /\ FormRendered
    /\ LET draft == Draft(formData, photos, template, dateNow)
       IN  /\ reports' = IF ok THEN StorePut(reports, draft.id, draft)
                         ELSE reports
           /\ written' = IF ok THEN StorePut(written, draft.id, draft)
                         ELSE written
           /\ formData' = IF ok
                          THEN [j \in DOMAIN formData \cup {"id"} |->
                                  IF j = "id" THEN draft.id ELSE formData[j]]
                          ELSE formData
           /\ ret' = IF ok THEN Resolved("handleSaveDraft", draft, Undefined)
                     ELSE Rejected("handleSaveDraft", draft, "request")
    /\ UNCHANGED <<users, templates, calls, userTxQueue, backupFile, exported,
                   homeScreen, imageVars, reportVars, route, template,
                   loading, errors, generatingPdf>>

\* { ...formData, id, templateId: template.id, createdAt }
FullReport(data, list, tmpl, time) ==
    [j \in DOMAIN data \cup {"photos", "id", "templateId", "createdAt"} |->
        IF j = "photos" THEN list
        ELSE IF j = "id" THEN DraftId(data, time)
        ELSE IF j = "templateId" THEN tmpl.id
        ELSE IF j = "createdAt" THEN CreatedAt(data, time)
        ELSE data[j]]

\* handleGeneratePDF, up to the start of the timer
HandleGeneratePDF ==
    /\ FormRendered
    /\ generatingPdf = Null
    /\ LET newErrors == {f \in Required : FieldMissing(formData, f)}
           fullReport == FullReport(formData, photos, template, dateNow)
       IN  /\ errors' = newErrors
           /\ generatingPdf' = IF newErrors # {} THEN Null
                               ELSE [report |-> fullReport,
                                     template |-> template]
           /\ ret' = Resolved("handleGeneratePDF", formData,
                              [errors |-> newErrors])
    /\ UNCHANGED <<dbVars, homeScreen, imageVars, reportVars, route, template,
                   loading, formData>>

\* the timer of handleGeneratePDF: generatePDF(fullReport, template), then
\* navigate('/') when it gave true
PdfTimer(success) ==
    /\ generatingPdf # Null
    /\ ret' = Resolved("generatePDF", generatingPdf, [success |-> success])
    /\ route' = IF success THEN Home ELSE route
    /\ generatingPdf' = Null
    /\ UNCHANGED <<dbVars, homeScreen, imageVars, reportVars, template,
                   loading, formData, errors>>

(***************************************************************************)
(* Specifications.                                                         *)
(***************************************************************************)
\* the single-record operations of the store
Next ==
    \/ \E t \in ReportTemplate, ok \in BOOLEAN : SaveTemplate(t, ok)
    \/ \E r \in ReportData, ok \in BOOLEAN : SaveReport(r, ok)
    \/ GetTemplates
    \/ \E id \in Range(ReportIds) : GetReport(id)
    \/ GetAllReports
    \/ \E id \in Range(TemplateIds) : DeleteTemplate(id)
    \/ \E id \in Range(ReportIds) : DeleteReport(id)

Spec == Init /\ [][Next]_vars

\* bulk import mixed with draft saves, deletes and reads
NextImport ==
    \/ \E data \in BackupData, failAt \in 0..MaxItems : ImportBackup(data, failAt)
    \/ \E r \in DraftItems, ok \in BOOLEAN : SaveReport(r, ok)
    \/ \E id \in Range(ReportIds) : DeleteReport(id)
    \/ \E id \in Range(ReportIds) : GetReport(id)
    \/ GetAllReports
    \/ GetTemplates

SpecImport == Init /\ [][NextImport]_vars

\* fill the store, export it, delete from it, import the exported file
MaxFilePuts == Len(TemplateIds) + Len(ReportIds)

NextBackup ==
    \/ /\ backupFile = NoFile
       /\ \/ \E t \in ReportTemplate : SaveTemplate(t, TRUE)
          \/ \E r \in {x \in ReportData : x.templateId = TemplateIds[1]} :
                SaveReport(r, TRUE)
    \/ \E now \in Clock : HandleExportBackup(now)
    \/ \E id \in Range(TemplateIds) : DeleteTemplate(id)
    \/ \E id \in Range(ReportIds) : DeleteReport(id)
    \/ \E failAt \in 0..MaxFilePuts : HandleImportBackup(failAt)

SpecBackup == Init /\ [][NextBackup]_vars

\* registration and login, with createUser calls running concurrently
NextAuth ==
    \/ \E c \in Callers, u \in User : CreateUserBegin(c, u)
    \/ \E c \in Callers : CreateUserCheck(c)
    \/ \E c \in Callers : CreateUserAdd(c)
    \/ \E n \in Usernames, p \in Passwords : ValidateUser(n, p)

SpecAuth == Init /\ [][NextAuth]_vars

\* the home screen over a store of templates and reports
NextHome ==
    \/ \E t \in HomeTemplateItems : SaveTemplate(t, TRUE)
    \/ \E r \in HomeReportItems : SaveReport(r, TRUE)
    \/ \E id \in Range(TemplateIds) : DeleteTemplate(id)
    \/ \E id \in Range(ReportIds) : DeleteReport(id)
    \/ HomeLoadData

SpecHome == Init /\ [][NextHome]_vars

\* processImage as a function of the stored item and the source
InitImage ==
    /\ InitApp
    /\ InitReportScreen
    /\ photoQuality \in StoredItems
    /\ element \in Sources

NextImage ==
    \/ \E q \in DOMAIN PHOTO_SETTINGS : HandleSelect(q)
    \/ \E ctxOk, down \in BOOLEAN : ProcessImageCall(ctxOk, down)

SpecImage == InitImage /\ [][NextImage]_vars

\* the report screen: the camera modal
NextCamera ==
    \/ Tick
    \/ OpenCamera
    \/ UserMediaResolve
    \/ UserMediaReject
    \/ CancelCamera
    \/ \E ready, ctxOk \in BOOLEAN : CapturePhoto(ready, ctxOk)

SpecCamera == Init /\ [][NextCamera]_vars

\* the report screen: upload batches and the preview of the staged photos
NextUpload ==
    \/ \E n \in 1..MaxFiles : HandlePhotoUpload(n)
    \/ \E i \in 1..MaxFiles : i \in DOMAIN fileStatus /\ ReaderLoad(i)
    \/ \E i \in 1..MaxFiles : i \in DOMAIN fileStatus /\ ReaderError(i)
    \/ \E i \in 1..MaxFiles : i \in DOMAIN fileStatus /\ ImageError(i)
    \/ \E i \in 1..MaxFiles, size \in UploadSizes :
          i \in DOMAIN fileStatus /\ ImageLoad(i, size, TRUE)
    \/ \E index \in 1..MaxFiles : RemoveStagedPhoto(index)
    \/ CancelStagedPhotos

SpecUpload == Init /\ [][NextUpload]_vars

\* the FileReader or the Image of the file being processed reports: one of
\* onload and onerror is called
FileReports ==
    \E i \in 1..MaxFiles :
       /\ i \in DOMAIN fileStatus
       /\ \/ ReaderLoad(i)
          \/ ReaderError(i)
          \/ ImageError(i)
          \/ \E size \in UploadSizes : ImageLoad(i, size, TRUE)

\* the upload batches when every read and every decode reports in the end
FairUpload == SpecUpload /\ WF_vars(FileReports)

\* the report screen: upload batches, the preview and its confirmation
NextStaging ==
    \/ \E n \in 1..MaxFiles : HandlePhotoUpload(n)
    \/ \E i \in 1..MaxFiles : i \in DOMAIN fileStatus /\ ReaderLoad(i)
    \/ \E i \in 1..MaxFiles : i \in DOMAIN fileStatus /\ ReaderError(i)
    \/ \E i \in 1..MaxFiles : i \in DOMAIN fileStatus /\ ImageError(i)
    \/ \E i \in 1..MaxFiles, size \in UploadSizes :
          i \in DOMAIN fileStatus /\ ImageLoad(i, size, TRUE)
    \/ \E index \in 1..MaxFiles : RemoveStagedPhoto(index)
    \/ ConfirmStagedPhotos
    \/ CancelStagedPhotos

SpecStaging == Init /\ [][NextStaging]_vars

\* no modal covers the report form (each one is a fixed full-screen layer)
FormShown ==
    ~isCameraOpen /\ ~isPhotoPreviewOpen /\ ~isProcessingPhotos /\ ~editorOpen

\* the photos of a draft opened in the report screen: one taken with the
\* camera and one uploaded
DraftPhotos ==
    << [id |-> [time |-> 1],
        base64 |-> ToDataURL(Raw(0), [width |-> 1024, height |-> 576], Num(7)),
        caption |-> ""],
       [id |-> [time |-> 1, random |-> 1],
        base64 |-> ToDataURL(Raw(1), [width |-> 640, height |-> 480], Num(7)),
        caption |-> "a"] >>

\* the form of ReportScreen once loadData has ended for a stored draft
InitDraftForm ==
    /\ route = [screen |-> "report", reportId |-> ReportIds[1]]
    /\ template = [id |-> TemplateIds[1], title |-> "A"]
    /\ loading = FALSE
    /\ formData = [id |-> ReportIds[1], templateId |-> TemplateIds[1],
                   status |-> "draft", createdAt |-> 1, updatedAt |-> 1,
                   equipment |-> <<"x">>, omNumber |-> <<"x">>,
                   technicians |-> <<"x">>, team |-> "A"]
    /\ errors = {}
    /\ generatingPdf = Null

InitEditor ==
    /\ InitApp
    /\ InitDraftForm
    /\ photoQuality = NoItem
    /\ element = NoSource
    /\ dateNow = 1
    /\ photos = DraftPhotos
    /\ imageCall = [tick |-> 0, source |-> NoSource, result |-> Undefined]
    /\ isCameraOpen = FALSE /\ streamRef = 0 /\ video = 0
    /\ streams = <<>> /\ requests = 0
    /\ editorOpen = FALSE /\ currentPhoto = Null /\ editCaption = ""
    /\ isDrawingMode = FALSE /\ drawColor = "#ef4444"
    /\ isDrawing = FALSE /\ lastPos = FALSE /\ canvasRef = NoCanvas
    /\ stagedPhotos = <<>> /\ isPhotoPreviewOpen = FALSE
    /\ isProcessingPhotos = FALSE /\ fileStatus = <<>>
    /\ processedPhotos = <<>> /\ random = 1

\* the report screen: the editor on the photos of a draft
NextEditor ==
    \/ \E i \in 1..MaxPhotos : OpenEditor(i)
    \/ EditorImageLoad
    \/ ToggleDrawingMode
    \/ \E color \in Colors : SetDrawColor(color)
    \/ \E text \in Captions : SetEditCaption(text)
    \/ StartDrawing
    \/ Draw
    \/ StopDrawing
    \/ CloseEditor
    \/ SaveEditorChanges
    \/ RemovePhoto

SpecEditor == InitEditor /\ [][NextEditor]_vars

\* the photos of a draft whose second photo does not decode: its base64
\* is 'data:,', which processImage gives for a picture of 4000 by 1
BrokenDraftPhotos ==
    << DraftPhotos[1],
       [id |-> [time |-> 1, random |-> 1], base64 |-> EmptyDataURL,
        caption |-> "a"] >>

InitBrokenDraft ==
    /\ InitApp
    /\ InitDraftForm
    /\ photoQuality = NoItem
    /\ element = NoSource
    /\ dateNow = 1
    /\ photos = BrokenDraftPhotos
    /\ imageCall = [tick |-> 0, source |-> NoSource, result |-> Undefined]
    /\ isCameraOpen = FALSE /\ streamRef = 0 /\ video = 0
    /\ streams = <<>> /\ requests = 0
    /\ editorOpen = FALSE /\ currentPhoto = Null /\ editCaption = ""
    /\ isDrawingMode = FALSE /\ drawColor = "#ef4444"
    /\ isDrawing = FALSE /\ lastPos = FALSE /\ canvasRef = NoCanvas
    /\ stagedPhotos = <<>> /\ isPhotoPreviewOpen = FALSE
    /\ isProcessingPhotos = FALSE /\ fileStatus = <<>>
    /\ processedPhotos = <<>> /\ random = 1

\* the editor on the photos of such a draft
SpecBrokenDraft == InitBrokenDraft /\ [][NextEditor]_vars

\* the report screen: the photos that the camera and the file input bring
NextIntake ==
    \/ FormShown /\ OpenCamera
    \/ UserMediaResolve
    \/ \E ready \in BOOLEAN : CapturePhoto(ready, TRUE)
    \/ \E n \in 1..MaxPhotos : FormShown /\ HandlePhotoUpload(n)
    \/ \E i \in 1..MaxPhotos : i \in DOMAIN fileStatus /\ ReaderLoad(i)
    \/ \E i \in 1..MaxPhotos, size \in UploadSizes :
          i \in DOMAIN fileStatus /\ ImageLoad(i, size, TRUE)
    \/ ConfirmStagedPhotos

SpecIntake == Init /\ [][NextIntake]_vars

\* the report screen: every way a photo enters, changes in or leaves the
\* report.  The camera button, the file input and the photos are reached
\* while the form is shown.
NextPhotos ==
    \/ Tick
    \/ FormShown /\ OpenCamera
    \/ UserMediaResolve
    \/ \E ready \in BOOLEAN : CapturePhoto(ready, TRUE)
    \/ \E n \in 1..MaxPhotos : FormShown /\ HandlePhotoUpload(n)
    \/ \E i \in 1..MaxPhotos : i \in DOMAIN fileStatus /\ ReaderLoad(i)
    \/ \E i \in 1..MaxPhotos, size \in UploadSizes :
          i \in DOMAIN fileStatus /\ ImageLoad(i, size, TRUE)
    \/ ConfirmStagedPhotos
    \/ \E i \in 1..MaxPhotos : FormShown /\ OpenEditor(i)
    \/ SaveEditorChanges
    \/ RemovePhoto

SpecPhotos == Init /\ [][NextPhotos]_vars

\* the report form: the required fields and the generation of the PDF
NextValidate ==
    \/ SaveTemplate([id |-> TemplateIds[1], title |-> "A"], TRUE)
    \/ OpenReportScreen([templateId |-> TemplateIds[1]])
    \/ LoadData
    \/ \E f \in Required, v \in FieldValues : SetField(f, v)
    \/ HandleGeneratePDF
    \/ \E success \in BOOLEAN : PdfTimer(success)
    \/ GoHome

SpecValidate == Init /\ [][NextValidate]_vars

\* the routes that the links of the home screen and typed addresses give
RouteParams ==
    {[templateId |-> TemplateIds[1]], [templateId |-> TemplateIds[2]],
     [reportId |-> ReportIds[1]]}
    \cup {[reportId |-> TimeId(n)] : n \in Clock}

\* the report form: drafts saved, loaded again, and their templates deleted
NextDraft ==
    \/ Tick
    \/ SaveTemplate([id |-> TemplateIds[1], title |-> "A"], TRUE)
    \/ DeleteTemplate(TemplateIds[1])
    \/ \E params \in RouteParams : OpenReportScreen(params)
    \/ LoadData
    \/ SetField("equipment", <<"x">>)
    \/ \E ok \in BOOLEAN : HandleSaveDraft(ok)
    \/ GoHome

SpecDraft == Init /\ [][NextDraft]_vars

(***************************************************************************)
(* Properties of createUser and validateUser, under SpecAuth.              *)
(***************************************************************************)

\* C1: when the existence check of createUser(u) runs and a record with
\* key u.username is stored, the call is rejected with the duplicate-user
\* error and the users store is unchanged; when none is stored the insert
\* follows, stores exactly u under u.username, leaves every other record
\* alone and the call resolves.
C1_CreateUserDuplicate ==
    [][\A c \in Callers :
        LET u == calls[c].user
        IN  /\ (calls[c].pc = "check" /\ calls'[c].pc # "check") =>
                  /\ users' = users
                  /\ IF u.username \in DOMAIN users
                     THEN calls'[c] = [pc |-> "idle", user |-> u,
                                       result |-> "Usuário já existe"]
                     ELSE calls'[c].pc = "add"
            /\ (calls[c].pc = "add" /\ calls'[c].pc # "add") =>
                  /\ u.username \notin DOMAIN users
                  /\ calls'[c].result = "resolved"
                  /\ DOMAIN users' = DOMAIN users \cup {u.username}
                  /\ users'[u.username] = u
                  /\ \A n \in DOMAIN users : users'[n] = users[n]
      ]_vars

\* a call was rejected as duplicate of a record that differs from its own,
\* and that record is the one another call inserted
C1_Witness ==
    \E c, d \in Callers :
        /\ calls[c].result = "Usuário já existe"
        /\ calls[d].result = "resolved"
        /\ calls[d].user.username = calls[c].user.username
        /\ users[calls[c].user.username] = calls[d].user
        /\ calls[d].user # calls[c].user

\* C2 as stated: validateUser(u.username, p) settles with false for every
\* stored user u and every p other than u's stored password.
C2_WrongPasswordFalse ==
    [][(/\ Settles("validateUser")
        /\ ret'.arg.username \in DOMAIN users
        /\ users[ret'.arg.username].password # ret'.arg.password)
       => (ret'.outcome = "resolved" /\ ret'.value.ok = FALSE)]_vars

\* C2 amended: the same for every pair other than admin/admin.
C2_WrongPasswordFalseButBackdoor ==
    [][(/\ Settles("validateUser")
        /\ ret'.arg.username \in DOMAIN users
        /\ users[ret'.arg.username].password # ret'.arg.password
        /\ ~(ret'.arg.username = "admin" /\ ret'.arg.password = "admin"))
       => (ret'.outcome = "resolved" /\ ret'.value.ok = FALSE)]_vars

\* the get returned a record whose password is not the one given
C2_Witness ==
    /\ ret.op = "validateUser"
    /\ ret.value.user # Undefined
    /\ ret.value.user.password # ret.arg.password
    /\ ret.value.ok = FALSE

\* C3: validateUser('admin','admin') settles with true whatever the users
\* store holds, and without opening the database.
C3_Backdoor ==
    (ret.op = "validateUser" /\ ret.arg.username = "admin"
        /\ ret.arg.password = "admin")
    => (ret.outcome = "resolved" /\ ret.value.ok = TRUE
            /\ ret.value.opened = FALSE)

\* admin/admin was accepted while 'admin' is stored with another password
C3_Witness ==
    /\ ret.op = "validateUser"
    /\ ret.arg = [username |-> "admin", password |-> "admin"]
    /\ ret.value.ok = TRUE
    /\ "admin" \in DOMAIN users
    /\ users["admin"].password # "admin"

\* C4: for a username without a record, validateUser settles with false
\* (admin/admin excepted) and is not rejected.
C4_MissingUserFalse ==
    [][(/\ Settles("validateUser")
        /\ ret'.arg.username \notin DOMAIN users
        /\ ~(ret'.arg.username = "admin" /\ ret'.arg.password = "admin"))
       => (ret'.outcome = "resolved" /\ ret'.value.ok = FALSE)]_vars

\* the get found nothing and the call settled with false
C4_Witness ==
    /\ ret.op = "validateUser"
    /\ ret.value.opened = TRUE
    /\ ret.value.user = Undefined
    /\ ret.outcome = "resolved"
    /\ ret.value.ok = FALSE

\* C5 as stated: while one createUser call has passed the existence check
\* and its insert has not taken effect, a concurrent call for the same
\* username can pass the existence check too.
C5_BothPassCheck ==
    \A c, d \in Callers :
        (/\ c # d
         /\ calls[c].pc = "add"
         /\ calls[d].pc = "check"
         /\ calls[d].user.username = calls[c].user.username
         /\ calls[c].user.username \notin DOMAIN users)
        => ENABLED (CreateUserCheck(d) /\ calls'[d].pc = "add")

\* C5 amended: two concurrent createUser calls never have both passed the
\* existence check: the check and the insert of a call run in one readwrite
\* transaction, the transactions on the users store run one at a time, and
\* the later call is rejected as a duplicate.
C5_ChecksSerialized ==
    /\ \A c, d \in Callers :
          (c # d /\ calls[c].pc = "add") => calls[d].pc # "add"
    /\ \A c \in Callers : calls[c].result # "ConstraintError"

\* one call has passed the check while one for the same username waits
C5_Witness ==
    \E c, d \in Callers :
        /\ c # d
        /\ calls[c].pc = "add"
        /\ calls[d].pc = "check"
        /\ calls[d].user.username = calls[c].user.username

\* C22: however concurrent createUser calls for one username interleave,
\* no two of them have resolved; a call that has resolved has its own
\* record stored under the username; and no step changes or removes a
\* record that is stored, so the record of the call that succeeded stays.
C22_OneCreateUserWins ==
    /\ [](\A c, d \in Callers :
            /\ (/\ c # d
                /\ calls[c].result = "resolved"
                /\ calls[d].result = "resolved")
               => calls[c].user.username # calls[d].user.username
            /\ calls[c].result = "resolved" =>
                  /\ calls[c].user.username \in DOMAIN users
                  /\ users[calls[c].user.username] = calls[c].user)
    /\ [][\A n \in DOMAIN users :
              n \in DOMAIN users' /\ users'[n] = users[n]]_vars

\* of two calls for one username with different passwords, one has
\* resolved and its record is stored; the other was rejected as a duplicate
C22_Witness ==
    \E c, d \in Callers :
        /\ c # d
        /\ calls[c].user # Undefined /\ calls[d].user # Undefined
        /\ calls[c].user.username = calls[d].user.username
        /\ calls[c].user.password # calls[d].user.password
        /\ calls[c].result = "resolved"
        /\ calls[d].result = "Usuário já existe"
        /\ users[calls[c].user.username] = calls[c].user

(***************************************************************************)
(* Properties of the template and report stores.                           *)
(***************************************************************************)
\* the puts of an import whose requests succeeded: the ones placed before
\* the failed one
Succeeded(puts, failAt) ==
    {i \in 1..Issued(puts) : failAt = 0 \/ i < failAt}

\* C6, under SpecImport: when a put of importBackup fails while others
\* succeed, the call is rejected and every item whose put succeeded is
\* stored afterwards.
C6_PartialImportCommitted ==
    [][(/\ Settles("importBackup")
        /\ (ret'.arg.failAt # 0 \/ FirstThrow(ImportPuts(ret'.arg.data)) # 0)
        /\ Succeeded(ImportPuts(ret'.arg.data), ret'.arg.failAt) # {})
       => LET puts == ImportPuts(ret'.arg.data)
              done == Succeeded(puts, ret'.arg.failAt)
          IN  /\ ret'.outcome = "rejected"
              /\ \A i \in done :
                    (\A j \in done : j > i =>
                        ~(puts[j].store = puts[i].store
                            /\ puts[j].v.id = puts[i].v.id))
                    => StoreGet(IF puts[i].store = "templates"
                                THEN templates' ELSE reports',
                                puts[i].v.id) = puts[i].v
      ]_vars

\* two stores hold the same records, field for field
SameRecords(a, b) ==
    /\ DOMAIN a = DOMAIN b
    /\ \A k \in DOMAIN a : StructEq(a[k], b[k])

\* C7, under SpecBackup: importing the exported document into emptied
\* templates and reports stores gives back, field for field, the records
\* the document was exported from.
C7_BackupRoundTrip ==
    [][(/\ Settles("handleImportBackup")
        /\ ret'.outcome = "resolved"
        /\ templates = EmptyStore
        /\ reports = EmptyStore)
       => (/\ SameRecords(templates', exported.templates)
           /\ SameRecords(reports', exported.reports))]_vars

\* a store with both kinds of record, one with updatedAt: undefined, was
\* exported, emptied and imported again
C7_Witness ==
    /\ ret.op = "handleImportBackup"
    /\ ret.outcome = "resolved"
    /\ ret.pre = "empty"
    /\ DOMAIN templates # {}
    /\ \E k \in DOMAIN exported.reports :
          /\ "updatedAt" \in DOMAIN exported.reports[k]
          /\ exported.reports[k].updatedAt = Undefined
          /\ k \in DOMAIN reports
    /\ \E k \in DOMAIN reports :
          /\ "updatedAt" \in DOMAIN reports[k]
          /\ reports[k].updatedAt # Undefined

\* after put(v): v is the one record under v.id, the rest is as it was
Upserted(old, new, v) ==
    /\ DOMAIN new = DOMAIN old \cup {v.id}
    /\ new[v.id] = v
    /\ Cardinality({k \in DOMAIN new : new[k].id = v.id}) = 1
    /\ \A k \in DOMAIN old \ {v.id} : new[k] = old[k]
    /\ (v.id \in DOMAIN old /\ old[v.id] = v) => new = old

\* C8, under Spec: saveTemplate and saveReport put the record under its
\* id: saving a record that is stored already changes nothing, saving over
\* another record with the same id leaves only the later one, and the
\* records under other ids and the other store stay as they were.
C8_SaveIsUpsert ==
    [][/\ (Settles("saveReport") /\ ret'.outcome = "resolved")
            => (Upserted(reports, reports', ret'.arg) /\ templates' = templates)
       /\ (Settles("saveTemplate") /\ ret'.outcome = "resolved")
            => (Upserted(templates, templates', ret'.arg) /\ reports' = reports)
      ]_vars

\* a report was saved over a different one with its id, beside another
C8_Witness ==
    /\ ret.op = "saveReport"
    /\ ret.outcome = "resolved"
    /\ ret.pre = "other"
    /\ reports[ret.arg.id] = ret.arg
    /\ Cardinality(DOMAIN reports) = 2

\* C9, under SpecImport: getReport(id) resolves with the value last
\* written under id by a save or a committed import and not deleted since,
\* and with undefined when there is none; it is never rejected.
C9_GetReport ==
    ret.op = "getReport" =>
        /\ ret.outcome = "resolved"
        /\ ret.value = written[ret.arg.id]

\* a read returned an imported record, and the other id has nothing
C9_Witness ==
    /\ ret.op = "getReport"
    /\ ret.value \in ImportReportItems
    /\ \E k \in Range(ReportIds) : k # ret.arg.id /\ written[k] = Undefined

\* C10, under Spec: deleteTemplate(id) resolves, removes the template
\* under id if there is one and nothing else; every report, also one made
\* from that template, is still returned by getReport and getAllReports;
\* looking the template up in getTemplates() finds nothing.
C10_DeleteTemplateFrame ==
    [][Settles("deleteTemplate") =>
        LET id == ret'.arg.id
        IN  /\ ret'.outcome = "resolved"
            /\ reports' = reports
            /\ DOMAIN templates' = DOMAIN templates \ {id}
            /\ \A k \in DOMAIN templates' : templates'[k] = templates[k]
            /\ id \notin DOMAIN templates => templates' = templates
            /\ FindTemplate(StoreGetAll(templates', TemplateIds), id) = Undefined
            /\ \A k \in DOMAIN reports :
                  /\ StoreGet(reports', k) = reports[k]
                  /\ reports[k] \in Range(StoreGetAll(reports', ReportIds))
      ]_vars

\* a stored template was deleted and a report made from it is still there
C10_Witness ==
    /\ ret.op = "deleteTemplate"
    /\ ret.pre = "other"
    /\ ret.arg.id \notin DOMAIN templates
    /\ \E k \in DOMAIN reports : reports[k].templateId = ret.arg.id
    /\ DOMAIN templates # {}

(***************************************************************************)
(* Properties of the home screen, under SpecHome.                          *)
(***************************************************************************)
\* C11: whenever the home screen loads its data, the load settles without
\* an error and the drafts list holds every stored report with status
\* 'draft' exactly once, with all its fields, whether or not its template
\* is stored: with the template's title when the template is stored with
\* a title, and with 'Modelo Excluído' when the template is not stored.
C11_DraftsListed ==
    [][Settles("loadData") =>
        LET list == homeScreen'.drafts
            stored == {k \in DOMAIN reports : IsDraft(reports[k])}
        IN  /\ ret'.outcome = "resolved"
            /\ Len(list) = Cardinality(stored)
            /\ \A k \in stored :
                  \E i \in DOMAIN list :
                     /\ \A f \in DOMAIN reports[k] : list[i][f] = reports[k][f]
                     /\ reports[k].templateId \notin DOMAIN templates
                           => list[i].templateTitle = "Modelo Excluído"
                     /\ (/\ reports[k].templateId \in DOMAIN templates
                         /\ templates[reports[k].templateId].title # "")
                           => list[i].templateTitle
                                 = templates[reports[k].templateId].title
      ]_vars

\* a load listed one draft under its template's title and one, whose
\* template is not stored, under the sentinel title
C11_Witness ==
    /\ ret.op = "loadData"
    /\ \E i, j \in DOMAIN homeScreen.drafts :
          /\ homeScreen.drafts[i].templateId \notin DOMAIN templates
          /\ homeScreen.drafts[i].templateTitle = "Modelo Excluído"
          /\ homeScreen.drafts[j].templateId \in DOMAIN templates
          /\ homeScreen.drafts[j].templateTitle = "A"

(***************************************************************************)
(* Properties of the image pipeline, under SpecImage.                      *)
(***************************************************************************)
Max(a, b) == IF a > b THEN a ELSE b
Abs(a) == IF a < 0 THEN 0 - a ELSE a

\* C12: for a source of w by h pixels, w, h > 0, and each of the three
\* tiers: if max(w, h) exceeds the tier's limit, the longer side of the
\* output is the limit give or take 1 and the output's aspect ratio is
\* within 1% of w / h; otherwise the output has the size of the source.
C12_ResizeInvariant ==
    (/\ ret.op = "processImage"
     /\ ret.outcome = "resolved"
     /\ ret.value.qualityMode \in DOMAIN PHOTO_SETTINGS
     /\ SourceWidth(ret.arg.source) > 0
     /\ SourceHeight(ret.arg.source) > 0)
    => LET w == SourceWidth(ret.arg.source)
           h == SourceHeight(ret.arg.source)
           out == ret.value.canvas
           limit == PHOTO_SETTINGS[ret.value.qualityMode].maxWidth
       IN  IF Max(w, h) > limit
           THEN /\ Abs(Max(out.width, out.height) - limit) <= 1
                /\ out.width > 0
                /\ out.height > 0
                /\ 100 * Abs(out.width * h - w * out.height) <= w * out.height
           ELSE out.width = w /\ out.height = h

\* C14: whenever the item stored under 'photoQuality' is not set or is
\* anything but 'high', 'medium' or 'low', processImage works with the
\* medium tier, and it does not fail whatever the item is.
C14_DefaultsToMedium ==
    ret.op = "processImage" =>
        /\ ret.outcome = "resolved"
        /\ ret.arg.item \notin DOMAIN PHOTO_SETTINGS
              => ret.value.qualityMode = "medium"

(***************************************************************************)
(* Properties of the camera modal, under SpecCamera.                       *)
(***************************************************************************)
\* C19: in every reachable state in which the camera modal is closed,
\* every media stream acquired for it has its tracks stopped, also when
\* the modal was cancelled while the access request was pending; and a
\* cancel adds no photo to the report.
C19_CameraReleased ==
    /\ [](~isCameraOpen =>
            \A i \in DOMAIN streams : streams[i] = "stopped")
    /\ [][Settles("cancelCamera") => photos' = photos]_vars

(***************************************************************************)
(* Properties of handlePhotoUpload, under SpecUpload.                      *)
(***************************************************************************)
\* the k-th smallest member of a set of numbers
Kth(S, k) == CHOOSE i \in S : Cardinality({j \in S : j <= i}) = k

\* C15: when a batch ends, whatever files of it failed (read error,
\* decode error, thrown or empty processImage result), the staged list is
\* what it was followed by one photo per file that did not fail, in the
\* order of the files; the handler ends without an error; and a file that
\* fails does not stop the batch: the next file is read.
C15_BatchSkipsFailures ==
    [][/\ Settles("handlePhotoUpload") =>
            LET ok == {i \in DOMAIN fileStatus' : fileStatus'[i] = "done"}
                before == Len(stagedPhotos)
            IN  /\ ret'.outcome = "resolved"
                /\ ~isProcessingPhotos'
                /\ \A i \in DOMAIN fileStatus' : Settled(fileStatus'[i])
                /\ Len(stagedPhotos') = before + Cardinality(ok)
                /\ SubSeq(stagedPhotos', 1, before) = stagedPhotos
                /\ \A k \in 1..Cardinality(ok) :
                      stagedPhotos'[before + k].base64.picture = Raw(Kth(ok, k))
                /\ photos' = photos
       /\ \A i \in DOMAIN fileStatus :
            (/\ DOMAIN fileStatus' = DOMAIN fileStatus
             /\ ~Settled(fileStatus[i])
             /\ fileStatus'[i] \in Failed \cup {"empty"}
             /\ i < Len(fileStatus))
            => (isProcessingPhotos' /\ fileStatus'[i + 1] # "queued")
      ]_vars

\* a batch of three files whose second file failed has ended: two photos
\* were staged behind one that was staged before
C15_Witness ==
    /\ ret.op = "handlePhotoUpload"
    /\ fileStatus = <<"done", "undecodable", "done">>
    /\ Len(stagedPhotos) = 3
    /\ stagedPhotos[2].base64.picture = Raw(1)
    /\ stagedPhotos[3].base64.picture = Raw(3)

\* C16: within a batch at most one file is being read, decoded or encoded
\* at any moment, and the read of a file has begun only if the file
\* before it has given its result or failed.
C16_OneFileAtATime ==
    /\ Cardinality({i \in DOMAIN fileStatus :
                       fileStatus[i] \in {"reading", "decoding"}}) <= 1
    /\ \A i \in DOMAIN fileStatus :
          (i > 1 /\ fileStatus[i] # "queued") => Settled(fileStatus[i - 1])

\* the first file failed, the second is being decoded, the third waits
C16_Witness ==
    /\ isProcessingPhotos
    /\ fileStatus = <<"unreadable", "decoding", "queued">>

(***************************************************************************)
(* Properties of the photos brought by the camera and the file input,      *)
(* under SpecIntake.                                                       *)
(***************************************************************************)

\* the source handed to processImage has a side of 0
ZeroSide(src) == SourceWidth(src) = 0 \/ SourceHeight(src) = 0

\* C13: a processImage call on a source whose width or height is 0
\* returns the empty string, without having made a canvas and without
\* throwing, and the caller (capturePhoto or handlePhotoUpload) adds no
\* photo for it: the report's photos and the photos processed so far in
\* the batch stay as they were, and the staged list gains at most the
\* photos that the other files of the batch made.
C13_ZeroSizeSource ==
    [][(imageCall'.tick # imageCall.tick /\ ZeroSide(imageCall'.source)) =>
          /\ imageCall'.result.outcome = "returned"
          /\ imageCall'.result.value = EmptyString
          /\ imageCall'.result.canvas = Undefined
          /\ photos' = photos
          /\ processedPhotos' = processedPhotos
          /\ stagedPhotos' \in {stagedPhotos, stagedPhotos \o processedPhotos}
      ]_vars

\* a capture on a frame without size has just returned '', after a batch
\* in which one image had no size and another one was staged and confirmed
C13_Witness ==
    /\ ret.op = "capturePhoto"
    /\ ret.outcome = "resolved"
    /\ ZeroSide(imageCall.source)
    /\ imageCall.result.value = EmptyString
    /\ \E i \in DOMAIN fileStatus : fileStatus[i] = "empty"
    /\ Len(photos) = 1
    /\ isCameraOpen

(***************************************************************************)
(* Properties of the photo editor, under SpecEditor.                       *)
(***************************************************************************)

\* C17: when the editor, showing the photo it was opened on, is committed
\* after at least one segment was drawn, the photo that was opened is in
\* the report with edited = true, a base64 other than the one it had, and
\* the caption that the caption input holds (the last text entered); no
\* photo is added or removed and the editor is closed.  (A commit made
\* while the photo has not been loaded into the canvas is the case of a
\* photo that does not decode.)
C17_CommitUpdatesPhoto ==
    [][(Settles("saveEditorChanges") /\ canvasRef.loaded
                                     /\ canvasRef.drawn > 0) =>
          /\ ~editorOpen'
          /\ Len(photos') = Len(photos)
          /\ \E i \in DOMAIN photos : photos[i].id = currentPhoto.id
          /\ \A i \in DOMAIN photos :
                photos[i].id = currentPhoto.id =>
                   /\ "edited" \in DOMAIN photos'[i]
                   /\ photos'[i].edited = TRUE
                   /\ photos'[i].base64 # photos[i].base64
                   /\ photos'[i].caption = editCaption
      ]_vars

\* the second photo of the draft, captioned "a", was committed with ink
\* on it after "b" was typed as its caption
C17_Witness ==
    /\ ret.op = "saveEditorChanges"
    /\ ret.arg.loaded
    /\ ret.arg.drawn > 0
    /\ ret.arg.caption = "b"
    /\ ~editorOpen
    /\ Len(photos) = 2
    /\ "edited" \in DOMAIN photos[2]
    /\ photos[2].caption = "b"
    /\ photos[2].base64.picture.ink > 0
    /\ photos[1] = DraftPhotos[1]

\* C18: the X button of the editor, after whatever was drawn, toggled,
\* coloured or typed since the editor was opened, leaves the report's
\* photos as they were when it was opened, and nothing done in the editor
\* short of a commit or a deletion writes to the store.
C18_CloseDiscards ==
    [][/\ (Settles("closeEditor") /\ ret.op = "openEditor") =>
              photos' = ret.value.photos
       /\ (editorOpen /\ ~Settles("saveEditorChanges")
                      /\ ~Settles("removePhoto")) =>
              /\ photos' = photos
              /\ dbVars' = dbVars
      ]_vars

\* the editor was closed with the X button after a segment was drawn in
\* the second colour and the caption was changed; the photos are those of
\* the draft
C18_Witness ==
    /\ ret.op = "closeEditor"
    /\ ret.arg.drawn > 0
    /\ ~editorOpen
    /\ drawColor = "#3b82f6"
    /\ editCaption = "b"
    /\ currentPhoto = DraftPhotos[1]
    /\ photos = DraftPhotos

\* C23: a segment is put on the canvas only in drawing mode and within
\* a stroke, that is after a pointer-down that was received in drawing
\* mode and before the pointer-up or leave that follows it; a stroke
\* begins only in drawing mode; while drawing mode is off no step other
\* than the load of the photo changes the canvas; and the editor opens
\* with drawing mode off.
C23_SegmentsOnlyInStroke ==
    [][/\ (/\ canvasRef # NoCanvas /\ canvasRef' # NoCanvas
           /\ canvasRef'.ink > canvasRef.ink)
          => (isDrawingMode /\ isDrawing /\ lastPos)
       /\ (isDrawing' /\ ~isDrawing) => isDrawingMode
       /\ (/\ ~isDrawingMode
           /\ canvasRef # NoCanvas /\ canvasRef' # NoCanvas
           /\ canvasRef'.loaded = canvasRef.loaded)
          => canvasRef' = canvasRef
       /\ Settles("openEditor") => ~isDrawingMode'
      ]_vars

\* a segment is on the loaded photo, the stroke is open, and drawing mode
\* has just been switched off
C23_Witness ==
    /\ editorOpen
    /\ canvasRef.loaded
    /\ canvasRef.ink > 0
    /\ isDrawing
    /\ ~isDrawingMode

\* the segments of ink that the commits of the editor put into a data URL
RECURSIVE InkIn(_)
InkIn(url) ==
    IF "picture" \notin DOMAIN url THEN 0
    ELSE IF url.picture.base.t \in {"raw", "blank"} THEN url.picture.ink
    ELSE url.picture.ink + InkIn(url.picture.base)

\* C21: a photo of the report has edited = true only if a commit of the
\* editor put at least one segment of ink into it; a commit without ink
\* (one that only changes the caption) leaves edited as it was.
C21_EditedOnlyWithStroke ==
    \A i \in DOMAIN photos :
        ("edited" \in DOMAIN photos[i] /\ photos[i].edited = TRUE) =>
            InkIn(photos[i].base64) > 0

(***************************************************************************)
(* Properties of the report's photo list, under SpecPhotos.                *)
(***************************************************************************)

\* C20: whatever captures, confirmed uploads, editor commits and
\* deletions were made, and whatever the clock showed at each of them, no
\* two photos of the report have the same id.
C20_DistinctIds ==
    \A i, j \in DOMAIN photos : i # j => photos[i].id # photos[j].id

\* a list without its element number index
Without(list, index) ==
    [i \in 1..(Len(list) - 1) |-> IF i < index THEN list[i] ELSE list[i + 1]]

\* C24: the commit of the editor changes no photo but the one that was
\* opened and keeps the length and order of the list; the delete removes
\* the photo that was opened and no other; neither writes to the store.
C24_OnlyOpenedPhoto ==
    [][/\ (Settles("saveEditorChanges") /\ ret.op = "openEditor") =>
             /\ Len(photos') = Len(photos)
             /\ \A i \in DOMAIN photos :
                   i # ret.arg.index => photos'[i] = photos[i]
             /\ dbVars' = dbVars
       /\ (Settles("removePhoto") /\ ret.op = "openEditor") =>
             /\ photos' = Without(photos, ret.arg.index)
             /\ dbVars' = dbVars
      ]_vars

(***************************************************************************)
(* Properties of the editor on a photo that does not decode, under         *)
(* SpecBrokenDraft.                                                        *)
(***************************************************************************)

\* C25: when the editor was opened on a photo whose base64 does not
\* decode, a commit closes the editor and leaves the base64 of that photo
\* as it was: what the empty canvas holds is not put in its place.
C25_UndecodableKeepsBase64 ==
    [][(Settles("saveEditorChanges") /\ ~Decodable(currentPhoto.base64)) =>
          /\ ~editorOpen'
          /\ \A i \in DOMAIN photos :
                photos[i].id = currentPhoto.id =>
                    photos'[i].base64 = photos[i].base64
      ]_vars

(***************************************************************************)
(* Properties of the report form, under SpecValidate and SpecDraft.        *)
(***************************************************************************)

\* nothing but spaces
IsBlank(string) == \A i \in DOMAIN string : string[i] = " "

\* the required fields of a form that hold nothing but spaces
EmptyFields(data) ==
    {f \in Required : f \notin DOMAIN data \/ IsBlank(data[f])}

\* C26: the report that the timer of handleGeneratePDF hands to
\* generatePDF has omNumber, equipment and technicians that are not
\* blank; and when handleGeneratePDF finds one of them blank, errors
\* becomes exactly the set of the blank ones, no report waits for the
\* timer, and the form data, the photos and the store stay as they were.
C26_ValidationGuardsPDF ==
    [][/\ Settles("generatePDF") =>
             EmptyFields(ret'.arg.report) = {}
       /\ (Settles("handleGeneratePDF") /\ EmptyFields(formData) # {}) =>
             /\ errors' = EmptyFields(formData)
             /\ generatingPdf' = Null
             /\ formData' = formData
             /\ photos' = photos
             /\ dbVars' = dbVars
      ]_vars

\* handleGeneratePDF has just flagged the equipment, which holds a space,
\* and the technicians, which are empty, and not the order number, which
\* holds text behind a space
C26_Witness ==
    /\ ret.op = "handleGeneratePDF"
    /\ formData.omNumber = <<" ", "x">>
    /\ formData.equipment = <<" ">>
    /\ formData.technicians = <<>>
    /\ errors = {"equipment", "technicians"}
    /\ generatingPdf = Null

\* C27: when a draft save follows a draft save of the same screen with
\* nothing done in between, the record it writes is the record written
\* before in every field but updatedAt, and it adds no record to the
\* store.
C27_ResaveKeepsRecord ==
    [][(/\ ret.op = "handleSaveDraft"
        /\ ret.outcome = "resolved"
        /\ Settles("handleSaveDraft")
        /\ ret'.outcome = "resolved") =>
          /\ DOMAIN ret'.arg = DOMAIN ret.arg
          /\ \A f \in DOMAIN ret.arg \ {"updatedAt"} :
                ret'.arg[f] = ret.arg[f]
          /\ ret'.arg.status = "draft"
          /\ DOMAIN reports' = DOMAIN reports
      ]_vars

\* C30: when loadData runs for a report id under which nothing is stored,
\* or for a stored report whose template is not stored, it ends without
\* an exception, loading is cleared, template stays null, the form is not
\* rendered, the screen goes back to home, and the store is as it was.
C30_MissingDataRedirects ==
    [][(/\ Settles("loadData")
        /\ "reportId" \in DOMAIN route
        /\ \/ route.reportId \notin DOMAIN reports
           \/ reports[route.reportId].templateId \notin DOMAIN templates) =>
          /\ ret'.outcome = "resolved"
          /\ ~ret'.value.caught
          /\ ~loading'
          /\ template' = Null
          /\ route' = Home
          /\ dbVars' = dbVars
      ]_vars

\* loadData has ended for a stored draft whose template was deleted: the
\* screen is home again and the draft is still stored
C30_Witness ==
    /\ ret.op = "loadData"
    /\ ret.value.report # Undefined
    /\ ret.value.template = Undefined
    /\ ret.arg.reportId \in DOMAIN reports
    /\ reports[ret.arg.reportId] = ret.value.report
    /\ route = Home
    /\ ~loading
    /\ template = Null

(***************************************************************************)
(* Properties of the staged photos, under SpecStaging.                     *)
(***************************************************************************)
\* C28: the photo list of the report changes only when confirmStagedPhotos
\* runs, which appends the staged photos in their order and empties the
\* staging list; cancelStagedPhotos and removeStagedPhoto leave the photo
\* list alone; and whenever the preview is closed the staging list is
\* empty.
C28_StagedOnlyByConfirm ==
    /\ [](~isPhotoPreviewOpen => stagedPhotos = <<>>)
    /\ [][/\ photos' # photos => Settles("confirmStagedPhotos")
          /\ Settles("confirmStagedPhotos") =>
                /\ photos' = photos \o stagedPhotos
                /\ stagedPhotos' = <<>>
          /\ (Settles("cancelStagedPhotos") \/ Settles("removeStagedPhoto")) =>
                photos' = photos
        ]_vars

\* two staged photos were confirmed onto a report: the preview is closed,
\* the staging list is empty and the report has them
C28_Witness ==
    /\ ret.op = "confirmStagedPhotos"
    /\ Len(photos) = 2
    /\ stagedPhotos = <<>>
    /\ ~isPhotoPreviewOpen

(***************************************************************************)
(* Termination of handlePhotoUpload, under FairUpload.                     *)
(***************************************************************************)
\* C29: when every read and decode reports in the end, a batch that set
\* isProcessingPhotos ends with it cleared, whatever files fail, and the
\* step that ends the batch keeps the photos staged before it at the head
\* of the staging list.
C29_BatchTerminates ==
    /\ isProcessingPhotos ~> ~isProcessingPhotos
    /\ [][Settles("handlePhotoUpload") =>
            /\ ~isProcessingPhotos'
            /\ Len(stagedPhotos') >= Len(stagedPhotos)
            /\ SubSeq(stagedPhotos', 1, Len(stagedPhotos)) = stagedPhotos
        ]_vars

\* a batch with a failed file and a processed file has ended while photos
\* of an earlier batch were staged
C29_Witness ==
    /\ ret.op = "handlePhotoUpload"
    /\ ~isProcessingPhotos
    /\ \E i \in DOMAIN fileStatus : fileStatus[i] \in Failed
    /\ \E i \in DOMAIN fileStatus : fileStatus[i] = "done"
    /\ Len(stagedPhotos) > Len(processedPhotos)
    /\ Len(processedPhotos) > 0
====
